---- MODULE Spec2Model ----
(***************************************************************************)
(* Roster & Identity Lifecycle Engine of youspeak-backend.                 *)
(*                                                                         *)
(* The committed database is the shared state (users, teacher access       *)
(* codes, student trash).  Every request runs in its own session: it reads *)
(* the committed rows one statement at a time, keeps what it read and what *)
(* it intends to write in its local state, and its flush+commit applies    *)
(* the writes (UPDATE/DELETE by primary key, INSERT under the unique       *)
(* indexes) in one step.  Every database round trip is a step of its own,  *)
(* so requests interleave exactly at the awaits of the source.             *)
(***************************************************************************)
EXTENDS Integers, Sequences, FiniteSets, TLC

\* ---------------------------------------------------------------- bounds
MaxUsers == 4
MaxCodes == 2
MaxTrash == 2
MaxTime == 37
LedgerRequests == 4
SeqLedgerRequests == 6
UpsertRequests == 2
RetentionRequests == 4
SeqRetentionRequests == 4
SeqImportRequests == 3
SeqStudentRequests == 3
AllocatorRequests == 2
FairRetentionRequests == 3
SeqInviteRequests == 3
ImportsRequests == 2
SeqRosterRequests == 2
MaxBatchCodes == 3
MaxRequests == 2
NewYearDay == 35

\* ------------------------------------------------------ program constants
RetentionDays == 30
CodeTTLDays == 7

NULL == 0 - 1
NoNumber == <<>>

Procs == {"p1", "p2"}
Tenants == {"t1", "t2"}
Emails == {"a", "b", "c", "d"}
SynthEmails == {"s1", "s2"}
SuppliedNumbers == {<<"Y1", "-", "0", "0", "2">>, <<"Y1", "-", "x">>}
\* what a request may carry as student_id beyond SuppliedNumbers: the number
\* of the enrolled student with a leading blank, and a number of 21 characters
PaddedNumber == <<" ", "Y1", "-", "0", "0", "1">>
\* the identifiers the students of a school may hold when the allocator
\* runs: padded and unpadded sequences, the last three-digit one, a custom
\* suffix, another year, and a suffix above the largest Integer
AllocatorNumbers ==
    {<<"Y1", "-", "0", "0", "1">>,
     <<"Y1", "-", "7">>,
     <<"Y1", "-", "9", "9", "9">>,
     <<"Y1", "-", "x">>,
     <<"Y2", "-", "0", "0", "5">>,
     <<"Y1", "-", "2", "1", "4", "7", "4", "8", "3", "6", "4", "8">>}
MaxRows == 2
\* users.student_number is a String(20)
StudentNumberMaxLen == 20
LongNumber == [k \in 1..(StudentNumberMaxLen + 1) |-> "9"]
\* the classes table: one class, of school t1; "k0" is the id of no class
Classes == {"k1"}
ClassSchool == [k \in Classes |-> "t1"]
\* the rows a CSV may hold: email, student_id, class_id, and whether both
\* first_name and last_name are present
CsvRow(e, sn, c, n) == [email |-> e, sn |-> sn, class |-> c, named |-> n]
ImportRows ==
    {CsvRow("b", NoNumber, "k1", TRUE),
     CsvRow("c", NoNumber, "k1", TRUE),
     CsvRow("", NoNumber, "", TRUE),
     CsvRow("a", NoNumber, "k1", TRUE),
     CsvRow("d", <<"Y1", "-", "0", "0", "2">>, "k0", TRUE),
     CsvRow("c", <<"Y1", "-", "0", "0", "1">>, "", TRUE),
     CsvRow("c", NoNumber, "", FALSE),
     CsvRow("d", LongNumber, "", TRUE)}
Batches == UNION {[1..n -> ImportRows] : n \in 1..MaxRows}
\* the rows of a teacher CSV: email, names present or not, classroom_id
Classrooms == {"r1"}
ClassroomSchool == [r \in Classrooms |-> "t1"]
\* the classroom_id strings that UUID() parses: r0 is no classroom
ValidUUIDs == {"r0", "r1"}
TeacherRow(e, n, c) == [email |-> e, named |-> n, classroom |-> c]
TeacherRows ==
    {TeacherRow("c", TRUE, ""), TeacherRow("c", TRUE, "r1"), TeacherRow("d", TRUE, "r1"),
     TeacherRow("d", TRUE, "r0"), TeacherRow("a", TRUE, ""), TeacherRow("", TRUE, ""),
     TeacherRow("d", FALSE, ""), TeacherRow("d", TRUE, "bad")}
TeacherBatches == UNION {[1..n -> TeacherRows] : n \in 1..MaxRows}
TickSteps == {7, 30}
Ids == 1..MaxUsers
CodeIds == 1..MaxCodes

VARIABLES now, schools, users, nextId, codes, nextCode, trash, nextTid,
          pc, loc, resp, budget, issued, enrollments, classroom_teachers

vars == <<now, schools, users, nextId, codes, nextCode, trash, nextTid,
          pc, loc, resp, budget, issued, enrollments, classroom_teachers>>
store == <<schools, users, nextId, codes, nextCode, trash, nextTid, issued,
           enrollments, classroom_teachers>>

Idle == [op |-> "none"]
NoResponse == [p |-> "none", op |-> "none"]

\* ------------------------------------------------------------ soft delete
\* SoftDeleteMixin: deleted_at NULL = live
is_deleted(u) == u.deleted_at # NULL

\* get_current_user + require_admin: an existing, active, live school admin
IsActingAdmin(a) ==
    /\ a \in DOMAIN users
    /\ users[a].is_active
    /\ ~is_deleted(users[a])
    /\ users[a].role = "school_admin"

Restrict(f, S) == [x \in S |-> f[x]]

\* DELETE FROM users WHERE id IN del, with the ON DELETE CASCADE foreign
\* keys of student_trash.user_id and teacher_access_codes.invited_teacher_id
UsersAfterDelete(del) == Restrict(users, DOMAIN users \ del)
TrashAfterDelete(del) == Restrict(trash, DOMAIN trash \ del)
CodesAfterDelete(del) ==
    Restrict(codes, {c \in DOMAIN codes : codes[c].invited_teacher_id \notin del})
\* class_enrollments.student_id is ON DELETE CASCADE as well
EnrollmentsAfterDelete(del) == {e \in enrollments : e[2] \notin del}
\* and so is classroom_teachers.teacher_id
ClassroomTeachersAfterDelete(del) == {e \in classroom_teachers : e[2] \notin del}

\* ------------------------------------------------------ student numbers
\* A student_number is a string, modelled as the sequence of its parts: the
\* four digits of a year are one token ("Y1", "Y2"), every other character
\* is a part of its own.
Digits == {"0", "1", "2", "3", "4", "5", "6", "7", "8", "9"}

DigitVal(d) ==
    CASE d = "0" -> 0 [] d = "1" -> 1 [] d = "2" -> 2 [] d = "3" -> 3
      [] d = "4" -> 4 [] d = "5" -> 5 [] d = "6" -> 6 [] d = "7" -> 7
      [] d = "8" -> 8 [] d = "9" -> 9

DigitChar(n) ==
    CASE n = 0 -> "0" [] n = 1 -> "1" [] n = 2 -> "2" [] n = 3 -> "3"
      [] n = 4 -> "4" [] n = 5 -> "5" [] n = 6 -> "6" [] n = 7 -> "7"
      [] n = 8 -> "8" [] n = 9 -> "9"

\* datetime.utcnow().year
YearOf(t) == IF t < NewYearDay THEN "Y1" ELSE "Y2"

\* cast(... AS Integer) of a string of digits
RECURSIVE CastInteger(_)
CastInteger(ds) ==
    IF ds = <<>> THEN 0
    ELSE CastInteger(SubSeq(ds, 1, Len(ds) - 1)) * 10 + DigitVal(ds[Len(ds)])

\* str(n)
RECURSIVE DecimalDigits(_)
DecimalDigits(n) ==
    IF n < 10 THEN <<DigitChar(n)>>
    ELSE DecimalDigits(n \div 10) \o <<DigitChar(n % 10)>>

\* f"{n:03d}"
RECURSIVE ZeroPad(_, _)
ZeroPad(ds, width) == IF Len(ds) >= width THEN ds ELSE ZeroPad(<<"0">> \o ds, width)

\* f"{year}-{next_seq:03d}"
FormatStudentNumber(year, seq) == <<year, "-">> \o ZeroPad(DecimalDigits(seq), 3)

\* variant: the pattern does not fix the year
MatchesPatternAnyYear(sn, year) ==
    /\ Len(sn) >= 3
    /\ sn[1] \in {"Y1", "Y2"}
    /\ sn[2] = "-"
    /\ \A i \in 3..Len(sn) : sn[i] \in Digits

\* student_number ~ '^{year}-\d+$'
MatchesPattern(sn, year) ==
    /\ Len(sn) >= 3
    /\ sn[1] = year
    /\ sn[2] = "-"
    /\ \A i \in 3..Len(sn) : sn[i] \in Digits

\* substring(student_number, len(prefix) + 1)
Suffix(sn) == SubSeq(sn, 3, Len(sn))

\* the number of characters of a student_number
CharLen(sn) == Len(sn) + 3 * Cardinality({k \in 1..Len(sn) : sn[k] \in {"Y1", "Y2"}})

\* (student_id or "").strip() or None: surrounding blanks are dropped, and
\* what is empty then counts as not supplied
Strip(sn) ==
    LET inked == {k \in 1..Len(sn) : sn[k] # " "}
    IN IF inked = {} THEN NoNumber
       ELSE SubSeq(sn, CHOOSE k \in inked : \A j \in inked : k <= j,
                       CHOOSE k \in inked : \A j \in inked : k >= j)

SetMax(S) == CHOOSE x \in S : \A y \in S : y <= x

\* the largest value of the database's Integer (int4), 2^31 - 1
IntegerMax == <<"2", "1", "4", "7", "4", "8", "3", "6", "4", "7">>

RECURSIVE DropZeros(_)
DropZeros(ds) ==
    IF Len(ds) > 1 /\ ds[1] = "0" THEN DropZeros(Tail(ds)) ELSE ds

\* a > b for two strings of digits of one length
RECURSIVE DigitsGreater(_, _)
DigitsGreater(a, b) ==
    /\ a # <<>>
    /\ \/ DigitVal(a[1]) > DigitVal(b[1])
       \/ a[1] = b[1] /\ DigitsGreater(Tail(a), Tail(b))

\* cast(... AS Integer) raises "integer out of range"
IntegerOutOfRange(ds) ==
    LET d == DropZeros(ds)
    IN \/ Len(d) > Len(IntegerMax)
       \/ Len(d) = Len(IntegerMax) /\ DigitsGreater(d, IntegerMax)

\* what the caller of the allocator gets when its SELECT raises
AllocatorError == <<"DataError">>

\* generate_next_student_number over the rows the session can see
generate_next_student_number(rows, school_id, t) ==
    LET year == YearOf(t)
        matching == {x \in rows : /\ x.school = school_id
                                  /\ x.student_number # NoNumber
                                  /\ MatchesPattern(x.student_number, year)}
    IN IF \E r \in matching : IntegerOutOfRange(Suffix(r.student_number))
       THEN AllocatorError
       ELSE LET seqs == {CastInteger(Suffix(r.student_number)) : r \in matching}
                max_seq == IF seqs = {} THEN 0 ELSE SetMax(seqs)
            IN FormatStudentNumber(year, max_seq + 1)

\* ------------------------------------------------------------ user rows
NewUser(email, school, role, active, sn, pw) ==
    [email |-> email, school |-> school, role |-> role, is_active |-> active,
     deleted_at |-> NULL,
     student_number |-> IF role = "student" THEN sn ELSE NoNumber, pw |-> pw]

Committed == {users[i] : i \in DOMAIN users}

\* rows a session has flushed and not yet committed
Pending(q) == IF "pending" \in DOMAIN loc[q] THEN loc[q].pending ELSE <<>>
PendingRows(q) == {Pending(q)[k] : k \in 1..Len(Pending(q))}

\* variant: a session does not see the rows it has not committed
VisibleCommittedOnly(p) == Committed

\* the rows the statements of session p see: committed rows and its own
Visible(p) == Committed \cup PendingRows(p)

\* variant: email unique only within one school
CollidesWithinSchool(r, x) ==
    \/ x.email = r.email /\ x.school = r.school
    \/ /\ r.student_number # NoNumber
       /\ x.school = r.school
       /\ x.student_number = r.student_number

\* variant: no unique index on (school_id, student_number)
CollidesOnEmailOnly(r, x) == x.email = r.email

\* users.email UNIQUE; ix_users_school_student_number UNIQUE (school_id,
\* student_number) WHERE student_number IS NOT NULL
Collides(r, x) ==
    \/ x.email = r.email
    \/ /\ r.student_number # NoNumber
       /\ x.school = r.school
       /\ x.student_number = r.student_number

\* the INSERT of r by p raises IntegrityError
UniqueViolation(p, r) == \E x \in Visible(p) : Collides(r, x)

\* the constraint the IntegrityError names
ViolatedConstraint(p, r) ==
    IF \E x \in Visible(p) : x.email = r.email
    THEN "ix_users_email" ELSE "ix_users_school_student_number"

\* the INSERT of r by p waits for the transaction that holds the key
Blocked(p, r) == \E q \in Procs \ {p} : \E x \in PendingRows(q) : Collides(r, x)

get_user_by_email(e) == {i \in DOMAIN users : users[i].email = e}


\* a new request arrives at the idle worker p
Begin(p) ==
    /\ pc[p] = "idle"
    /\ budget > 0
    /\ budget' = budget - 1

\* the request of p resumes after the round trip it awaited
At(p, label) ==
    /\ pc[p] = label
    /\ UNCHANGED budget

\* the request of p ends; resp is the response sent by the step just taken
Finish(p, r) ==
    /\ pc' = [pc EXCEPT ![p] = "idle"]
    /\ loc' = [loc EXCEPT ![p] = Idle]
    /\ resp' = r

\* the request of p awaits its next database round trip
Goto(p, label, l) ==
    /\ pc' = [pc EXCEPT ![p] = label]
    /\ loc' = [loc EXCEPT ![p] = l]
    /\ resp' = NoResponse

\* get_db: an exception rolls the session back, the request answers 500;
\* the answer is recorded with the statement it was raised at and the email
\* and access code of the request
Rollback(p, op, detail) ==
    Finish(p, [p |-> p, op |-> op, status |-> "ERROR", detail |-> detail,
               at |-> pc[p],
               email |-> IF "email" \in DOMAIN loc[p] THEN loc[p].email ELSE "",
               code |-> IF "code" \in DOMAIN loc[p] THEN loc[p].code ELSE NULL])

\* variant: soft_delete_user selects the user whatever its deleted_at
SoftDeleteReadAny(p, u) ==
    /\ Begin(p)
    /\ \E a \in DOMAIN users : IsActingAdmin(a)
    /\ IF u \in DOMAIN users
       THEN Goto(p, "sd_commit",
                 [op |-> "soft_delete", u |-> u, role |-> users[u].role,
                  deleted_at |-> now])
       ELSE Finish(p, [p |-> p, op |-> "soft_delete", status |-> "NOT_FOUND", u |-> u])
    /\ UNCHANGED <<now, store>>

\* variant: a trash row for every role
SoftDeleteCommitAnyRole(p) ==
    /\ At(p, "sd_commit")
    /\ LET u == loc[p].u
           needTrash == TRUE
       IN IF \/ u \notin DOMAIN users
             \/ (needTrash /\ u \in DOMAIN trash)
          THEN /\ Rollback(p, "soft_delete",
                           IF u \notin DOMAIN users THEN "StaleDataError"
                           ELSE "student_trash_user_id_key")
               /\ UNCHANGED <<now, store>>
          ELSE /\ users' = [users EXCEPT ![u].deleted_at = loc[p].deleted_at]
               /\ IF needTrash
                  THEN /\ nextTid <= MaxTrash
                       /\ trash' = [x \in DOMAIN trash \cup {u} |->
                                      IF x = u
                                      THEN [tid |-> nextTid, deleted_at |-> now,
                                            expires_at |-> now + RetentionDays]
                                      ELSE trash[x]]
                       /\ nextTid' = nextTid + 1
                  ELSE UNCHANGED <<trash, nextTid>>
               /\ Finish(p, [p |-> p, op |-> "soft_delete", status |-> "OK", u |-> loc[p].u])
               /\ UNCHANGED <<now, schools, nextId, codes, nextCode, issued, enrollments, classroom_teachers>>

\* soft_delete_user, first statement: SELECT the live user, set deleted_at
SoftDeleteRead(p, u) ==
    /\ Begin(p)
    /\ \E a \in DOMAIN users : IsActingAdmin(a)
    /\ IF u \in DOMAIN users /\ ~is_deleted(users[u])
       THEN Goto(p, "sd_commit",
                 [op |-> "soft_delete", u |-> u, role |-> users[u].role,
                  deleted_at |-> now])
       ELSE Finish(p, [p |-> p, op |-> "soft_delete", status |-> "NOT_FOUND", u |-> u])
    /\ UNCHANGED <<now, store>>

\* soft_delete_user, commit: UPDATE users SET deleted_at; INSERT student_trash
SoftDeleteCommit(p) ==
    /\ At(p, "sd_commit")
    /\ LET u == loc[p].u
           needTrash == loc[p].role = "student"
       IN IF \/ u \notin DOMAIN users
             \/ (needTrash /\ u \in DOMAIN trash)
          THEN /\ Rollback(p, "soft_delete",
                           IF u \notin DOMAIN users THEN "StaleDataError"
                           ELSE "student_trash_user_id_key")
               /\ UNCHANGED <<now, store>>
          ELSE /\ users' = [users EXCEPT ![u].deleted_at = loc[p].deleted_at]
               /\ IF needTrash
                  THEN /\ nextTid <= MaxTrash
                       /\ trash' = [x \in DOMAIN trash \cup {u} |->
                                      IF x = u
                                      THEN [tid |-> nextTid, deleted_at |-> now,
                                            expires_at |-> now + RetentionDays]
                                      ELSE trash[x]]
                       /\ nextTid' = nextTid + 1
                  ELSE UNCHANGED <<trash, nextTid>>
               /\ Finish(p, [p |-> p, op |-> "soft_delete", status |-> "OK", u |-> loc[p].u])
               /\ UNCHANGED <<now, schools, nextId, codes, nextCode, issued, enrollments, classroom_teachers>>

\* restore_user, first statement: SELECT the user, require is_deleted
RestoreRead(p, u) ==
    /\ Begin(p)
    /\ \E a \in DOMAIN users : IsActingAdmin(a)
    /\ IF u \in DOMAIN users /\ is_deleted(users[u])
       THEN Goto(p, "rs_trash", [op |-> "restore", u |-> u, tid |-> NULL])
       ELSE Finish(p, [p |-> p, op |-> "restore", u |-> u,
                       status |-> "NOT_FOUND_OR_NOT_DELETED"])
    /\ UNCHANGED <<now, store>>

\* restore_user, second statement: SELECT the user's StudentTrash row
RestoreReadTrash(p) ==
    /\ At(p, "rs_trash")
    /\ LET u == loc[p].u
       IN Goto(p, "rs_commit",
               [loc[p] EXCEPT !.tid = IF u \in DOMAIN trash
                                      THEN trash[u].tid ELSE NULL])
    /\ UNCHANGED <<now, store>>

\* variant: restore_user leaves the trash row in place
TrashKept(tid) == trash

\* DELETE FROM student_trash WHERE id = tid (the row restore_user read)
TrashAfterRestore(tid) == Restrict(trash, {x \in DOMAIN trash : trash[x].tid # tid})

\* restore_user, commit: UPDATE users SET deleted_at = NULL; DELETE the
\* trash row that was read, by its primary key
RestoreCommit(p) ==
    /\ At(p, "rs_commit")
    /\ LET u == loc[p].u
       IN IF u \notin DOMAIN users
          THEN /\ Rollback(p, "restore", "StaleDataError")
               /\ UNCHANGED <<now, store>>
          ELSE /\ users' = [users EXCEPT ![u].deleted_at = NULL]
               /\ trash' = TrashAfterRestore(loc[p].tid)
               /\ Finish(p, [p |-> p, op |-> "restore", status |-> "OK", u |-> loc[p].u])
               /\ UNCHANGED <<now, schools, nextId, codes, nextCode, nextTid, issued, enrollments, classroom_teachers>>

\* variant: expires_at < now
ExpiredTrashStrict(t) == {u \in DOMAIN trash : trash[u].expires_at < t}

\* SELECT ... FROM student_trash WHERE expires_at <= :now
ExpiredTrash(t) == {u \in DOMAIN trash : trash[u].expires_at <= t}

\* cleanup_expired_trash, first statement: SELECT expired StudentTrash rows
SweepRead(p) ==
    /\ Begin(p)
    /\ \E a \in DOMAIN users : IsActingAdmin(a)
    /\ LET expired == ExpiredTrash(now)
       IN IF expired = {}
          THEN Finish(p, [p |-> p, op |-> "sweep", status |-> "OK", count |-> 0, purged |-> {},
                          at |-> now])
          ELSE Goto(p, "sw_loop",
                    [op |-> "sweep", todo |-> expired, del |-> {}, at |-> now])
    /\ UNCHANGED <<now, store>>

\* cleanup_expired_trash, loop body: db.get(User, record.user_id); db.delete
SweepGet(p) ==
    /\ At(p, "sw_loop")
    /\ \E u \in loc[p].todo :
         LET todo == loc[p].todo \ {u}
             del == IF u \in DOMAIN users THEN loc[p].del \cup {u}
                    ELSE loc[p].del
         IN IF todo = {} /\ del = {}
            THEN Finish(p, [p |-> p, op |-> "sweep", status |-> "OK", count |-> 0, purged |-> {},
                            at |-> loc[p].at])
            ELSE Goto(p, IF todo = {} THEN "sw_commit" ELSE "sw_loop",
                      [loc[p] EXCEPT !.todo = todo, !.del = del])
    /\ UNCHANGED <<now, store>>

\* cleanup_expired_trash, commit (count > 0): DELETE the users
SweepCommit(p) ==
    /\ At(p, "sw_commit")
    /\ users' = UsersAfterDelete(loc[p].del)
    /\ trash' = TrashAfterDelete(loc[p].del)
    /\ codes' = CodesAfterDelete(loc[p].del)
    /\ enrollments' = EnrollmentsAfterDelete(loc[p].del)
    /\ classroom_teachers' = ClassroomTeachersAfterDelete(loc[p].del)
    /\ Finish(p, [p |-> p, op |-> "sweep", status |-> "OK", count |-> Cardinality(loc[p].del),
                  purged |-> loc[p].del, at |-> loc[p].at])
    /\ UNCHANGED <<now, schools, nextId, nextCode, nextTid, issued>>

\* delete_user (DELETE /users/{id}), first statement: get_user_by_id
DeleteUserRead(p, u) ==
    /\ Begin(p)
    /\ \E a \in DOMAIN users : IsActingAdmin(a)
    /\ IF u \in DOMAIN users
       THEN Goto(p, "du_commit", [op |-> "delete_user", u |-> u])
       ELSE Finish(p, [p |-> p, op |-> "delete_user", status |-> "NOT_FOUND"])
    /\ UNCHANGED <<now, store>>

\* delete_user, commit: DELETE the user
DeleteUserCommit(p) ==
    /\ At(p, "du_commit")
    /\ users' = UsersAfterDelete({loc[p].u})
    /\ trash' = TrashAfterDelete({loc[p].u})
    /\ codes' = CodesAfterDelete({loc[p].u})
    /\ enrollments' = EnrollmentsAfterDelete({loc[p].u})
    /\ classroom_teachers' = ClassroomTeachersAfterDelete({loc[p].u})
    /\ Finish(p, [p |-> p, op |-> "delete_user", status |-> "OK", u |-> loc[p].u])
    /\ UNCHANGED <<now, schools, nextId, nextCode, nextTid, issued>>

\* ---------------------------------------------------------- identity upsert
\* INSERT of the rows flushed by p, each under a fresh primary key
InsertedUsers(rows) ==
    [i \in DOMAIN users \cup (nextId..(nextId + Len(rows) - 1)) |->
       IF i \in DOMAIN users THEN users[i] ELSE rows[i - nextId + 1]]

\* POST /students (create_student), email pre-check: get_user_by_email
CreateStudentStart(p, a, e, sn) ==
    /\ Begin(p)
    /\ IsActingAdmin(a)
    /\ nextId <= MaxUsers
    /\ \E s1 \in SynthEmails, s2 \in SynthEmails :
         LET email == IF e = "" THEN s1 ELSE e
             taken == get_user_by_email(email) # {}
         IN IF taken /\ e # ""
            THEN Finish(p, [p |-> p, op |-> "create_student",
                            status |-> "DUPLICATE_EMAIL", email |-> email,
                            synth |-> FALSE])
            ELSE Goto(p, "cs_number",
                      [op |-> "create_student", school |-> users[a].school,
                       email |-> IF taken THEN s2 ELSE email, sn |-> Strip(sn),
                       auto |-> Strip(sn) = NoNumber, synth |-> e = "",
                       given |-> sn])
    /\ UNCHANGED <<now, store>>

\* create_user for a student: allocate the number, or check the supplied one
CreateStudentNumber(p) ==
    /\ At(p, "cs_number")
    /\ LET l == loc[p]
       IN IF l.sn = NoNumber
          THEN IF generate_next_student_number(Visible(p), l.school, now) = AllocatorError
               THEN Rollback(p, "create_student", "DataError")
               ELSE Goto(p, "cs_commit",
                         [l EXCEPT !.sn = generate_next_student_number(
                                              Visible(p), l.school, now)])
          ELSE IF \E x \in Visible(p) : x.school = l.school /\ x.student_number = l.sn
               THEN Finish(p, [p |-> p, op |-> "create_student",
                               status |-> "DUPLICATE_IDENTIFIER", email |-> l.email,
                               synth |-> l.synth])
               ELSE Goto(p, "cs_commit", l)
    /\ UNCHANGED <<now, store>>

\* create_user, db.add + db.commit: INSERT the student
CreateStudentCommit(p) ==
    /\ At(p, "cs_commit")
    /\ LET l == loc[p]
           r == NewUser(l.email, l.school, "student", TRUE, l.sn, "default")
       IN /\ ~Blocked(p, r)
          /\ IF CharLen(r.student_number) > StudentNumberMaxLen
             THEN /\ Rollback(p, "create_student", "DataError")
                  /\ UNCHANGED <<now, store>>
             ELSE IF UniqueViolation(p, r)
             THEN /\ Rollback(p, "create_student", ViolatedConstraint(p, r))
                  /\ UNCHANGED <<now, store>>
             ELSE /\ nextId <= MaxUsers
                  /\ users' = InsertedUsers(<<r>>)
                  /\ nextId' = nextId + 1
                  /\ issued' = IF l.auto
                                THEN issued \cup {<<l.school, r.student_number>>}
                                ELSE issued
                  /\ Finish(p, [p |-> p, op |-> "create_student", status |-> "OK",
                                u |-> nextId, email |-> l.email, auto |-> l.auto,
                                synth |-> l.synth, school |-> l.school,
                                student_number |-> r.student_number])
                  /\ UNCHANGED <<now, schools, codes, nextCode, trash, nextTid, enrollments, classroom_teachers>>

\* POST /auth/register/school, email pre-check
RegisterSchoolStart(p, e) ==
    /\ Begin(p)
    /\ nextId <= MaxUsers
    /\ IF get_user_by_email(e) # {}
       THEN Finish(p, [p |-> p, op |-> "register_school",
                       status |-> "DUPLICATE_EMAIL", email |-> e])
       ELSE Goto(p, "rg_commit", [op |-> "register_school", email |-> e])
    /\ UNCHANGED <<now, store>>

\* create_school_with_admin: INSERT school, create_user commits the admin
RegisterSchoolCommit(p) ==
    /\ At(p, "rg_commit")
    /\ LET l == loc[p]
           t == IF Tenants \ schools = {} THEN "none"
                ELSE CHOOSE x \in Tenants : x \notin schools
           r == NewUser(l.email, t, "school_admin", TRUE, NoNumber, "pw")
       IN /\ ~Blocked(p, r)
          /\ IF UniqueViolation(p, r)
             THEN /\ Rollback(p, "register_school", ViolatedConstraint(p, r))
                  /\ UNCHANGED <<now, store>>
             ELSE /\ nextId <= MaxUsers
                  /\ Tenants \ schools # {}
                  /\ users' = InsertedUsers(<<r>>)
                  /\ nextId' = nextId + 1
                  /\ schools' = schools \cup {t}
                  /\ Finish(p, [p |-> p, op |-> "register_school", status |-> "OK",
                                u |-> nextId, email |-> l.email])
                  /\ UNCHANGED <<now, codes, nextCode, trash, nextTid, issued, enrollments, classroom_teachers>>

\* PUT /users/{id} (update_user) with a new email, first statement
UpdateUserStart(p, u, e) ==
    /\ Begin(p)
    /\ \/ \E a \in DOMAIN users : IsActingAdmin(a)
       \/ u \in DOMAIN users /\ users[u].is_active /\ ~is_deleted(users[u])
    /\ IF u \in DOMAIN users
       THEN Goto(p, "uu_commit", [op |-> "update_user", u |-> u, email |-> e,
                                  loaded |-> users[u].email])
       ELSE Finish(p, [p |-> p, op |-> "update_user", status |-> "NOT_FOUND"])
    /\ UNCHANGED <<now, store>>

\* update_user, commit: UPDATE users SET email WHERE id
UpdateUserCommit(p) ==
    /\ At(p, "uu_commit")
    /\ LET l == loc[p]
       IN IF l.email = l.loaded
          THEN /\ Finish(p, [p |-> p, op |-> "update_user", status |-> "OK"])
               /\ UNCHANGED <<now, store>>
          ELSE /\ \A q \in Procs \ {p} : \A x \in PendingRows(q) : x.email # l.email
               /\ IF \/ l.u \notin DOMAIN users
                     \/ \E i \in DOMAIN users \ {l.u} : users[i].email = l.email
                  THEN /\ Rollback(p, "update_user",
                                   IF l.u \notin DOMAIN users THEN "StaleDataError"
                                   ELSE "ix_users_email")
                       /\ UNCHANGED <<now, store>>
                  ELSE /\ users' = [users EXCEPT ![l.u].email = l.email]
                       /\ Finish(p, [p |-> p, op |-> "update_user", status |-> "OK"])
                       /\ UNCHANGED <<now, schools, nextId, codes, nextCode,
                                      trash, nextTid, issued, enrollments, classroom_teachers>>

\* -------------------------------------------------------- access code ledger
\* variant: the lookup does not filter on is_used
ValidCodeIgnoringUse(c, t) ==
    /\ c \in DOMAIN codes
    /\ (codes[c].expires_at = NULL \/ codes[c].expires_at > t)

\* the WHERE clause of verify_access_code and get_access_code_by_code
ValidCode(c, t) ==
    /\ c \in DOMAIN codes
    /\ ~codes[c].is_used
    /\ (codes[c].expires_at = NULL \/ codes[c].expires_at > t)

\* variant: a code still verifies at the instant it expires
verify_access_code_inclusive(c, t) ==
    IF /\ c \in DOMAIN codes
       /\ ~codes[c].is_used
       /\ (codes[c].expires_at = NULL \/ codes[c].expires_at >= t)
    THEN codes[c].school ELSE "None"

\* verify_access_code: the school id, or None
verify_access_code(c, t) == IF ValidCode(c, t) THEN codes[c].school ELSE "None"

\* POST /auth/verify-code
VerifyCode(p, c) ==
    /\ Begin(p)
    /\ Finish(p, [p |-> p, op |-> "verify", code |-> c,
                  status |-> IF verify_access_code(c, now) = "None"
                             THEN "INVALID_OR_EXPIRED" ELSE "OK",
                  school |-> verify_access_code(c, now)])
    /\ UNCHANGED <<now, store>>

\* variant: the pre-check sees only the identities that are activated
InviteStartActiveOnly(p, a, e) ==
    /\ Begin(p)
    /\ IsActingAdmin(a)
    /\ IF {i \in get_user_by_email(e) : users[i].is_active} # {}
       THEN Finish(p, [p |-> p, op |-> "invite", status |-> "DUPLICATE_EMAIL",
                       email |-> e])
       ELSE /\ nextId <= MaxUsers
            /\ Goto(p, "iv_flush", [op |-> "invite", admin |-> a,
                                    school |-> users[a].school, email |-> e])
    /\ UNCHANGED <<now, store>>

\* POST /teachers (create_teacher_invite), email pre-check
InviteStart(p, a, e) ==
    /\ Begin(p)
    /\ IsActingAdmin(a)
    /\ IF get_user_by_email(e) # {}
       THEN Finish(p, [p |-> p, op |-> "invite", status |-> "DUPLICATE_EMAIL",
                       email |-> e])
       ELSE /\ nextId <= MaxUsers
            /\ Goto(p, "iv_flush", [op |-> "invite", admin |-> a,
                                    school |-> users[a].school, email |-> e])
    /\ UNCHANGED <<now, store>>

\* create_invited_teacher: INSERT the inactive teacher (flush); the code
\* object is built with expires_at = utcnow() + 7 days
InviteFlush(p) ==
    /\ At(p, "iv_flush")
    /\ LET l == loc[p]
           r == NewUser(l.email, l.school, "teacher", FALSE, NoNumber, "placeholder")
       IN /\ ~Blocked(p, r)
          /\ IF UniqueViolation(p, r)
             THEN Rollback(p, "invite", ViolatedConstraint(p, r))
             ELSE Goto(p, "iv_commit",
                       [op |-> "invite", admin |-> l.admin, school |-> l.school,
                        pending |-> <<r>>, expires_at |-> now + CodeTTLDays])
    /\ UNCHANGED <<now, store>>

\* create_teacher_invite, commit: the teacher and its access code
InviteCommit(p) ==
    /\ At(p, "iv_commit")
    /\ nextId <= MaxUsers
    /\ nextCode <= MaxCodes
    /\ LET l == loc[p]
       IN /\ users' = InsertedUsers(l.pending)
          /\ codes' = [c \in DOMAIN codes \cup {nextCode} |->
                        IF c \in DOMAIN codes THEN codes[c]
                        ELSE [school |-> l.school, created_by_admin_id |-> l.admin,
                              invited_teacher_id |-> nextId,
                              expires_at |-> l.expires_at, is_used |-> FALSE,
                              used_by_teacher_id |-> NULL]]
          /\ nextId' = nextId + 1
          /\ nextCode' = nextCode + 1
          /\ Finish(p, [p |-> p, op |-> "invite", status |-> "OK", u |-> nextId,
                        email |-> l.pending[1].email, code |-> nextCode])
    /\ UNCHANGED <<now, schools, trash, nextTid, issued, enrollments, classroom_teachers>>

\* POST /auth/register/teacher -> create_teacher_with_code, first statement:
\* get_access_code_by_code
ConsumeStart(p, c, e) ==
    /\ Begin(p)
    /\ IF ValidCode(c, now)
       THEN Goto(p, IF codes[c].invited_teacher_id # NULL THEN "rt_get" ELSE "rt_email",
                 [op |-> "consume", code |-> c, email |-> e,
                  school |-> codes[c].school,
                  invited |-> codes[c].invited_teacher_id])
       ELSE Goto(p, "rt_none", [op |-> "consume", code |-> c, email |-> e])
    /\ UNCHANGED <<now, store>>

\* variant: the bound branch without the email comparison
ConsumeGetTeacherAnyEmail(p) ==
    /\ At(p, "rt_get")
    /\ LET l == loc[p]
           t == l.invited
       IN IF /\ t \in DOMAIN users
             /\ users[t].role = "teacher"
          THEN Goto(p, "rt_commit_b", l)
          ELSE Goto(p, "rt_none", [op |-> "consume", code |-> l.code, email |-> l.email])
    /\ UNCHANGED <<now, store>>

\* bound code: db.get(User, invited_teacher_id), role and email checks
ConsumeGetTeacher(p) ==
    /\ At(p, "rt_get")
    /\ LET l == loc[p]
           t == l.invited
       IN IF /\ t \in DOMAIN users
             /\ users[t].role = "teacher"
             /\ users[t].email = l.email
          THEN Goto(p, "rt_commit_b", l)
          ELSE Goto(p, "rt_none", [op |-> "consume", code |-> l.code, email |-> l.email])
    /\ UNCHANGED <<now, store>>

\* variant: the bound branch activates the teacher and keeps its placeholder
\* password
ConsumeCommitBoundKeepsPassword(p) ==
    /\ At(p, "rt_commit_b")
    /\ LET l == loc[p]
       IN IF l.invited \notin DOMAIN users \/ l.code \notin DOMAIN codes
          THEN /\ Rollback(p, "consume", "StaleDataError")
               /\ UNCHANGED <<now, store>>
          ELSE /\ users' = [users EXCEPT ![l.invited].is_active = TRUE]
               /\ codes' = [codes EXCEPT ![l.code].is_used = TRUE,
                                         ![l.code].used_by_teacher_id = l.invited]
               /\ Finish(p, [p |-> p, op |-> "consume", status |-> "OK",
                             code |-> l.code, u |-> l.invited, email |-> l.email,
                             kind |-> "activated"])
               /\ UNCHANGED <<now, schools, nextId, nextCode, trash, nextTid, issued, enrollments, classroom_teachers>>

\* bound code, commit: UPDATE the teacher (password, is_active) and the code
\* (is_used, used_by_teacher_id), each by primary key
ConsumeCommitBound(p) ==
    /\ At(p, "rt_commit_b")
    /\ LET l == loc[p]
       IN IF l.invited \notin DOMAIN users \/ l.code \notin DOMAIN codes
          THEN /\ Rollback(p, "consume", "StaleDataError")
               /\ UNCHANGED <<now, store>>
          ELSE /\ users' = [users EXCEPT ![l.invited].pw = "pw",
                                         ![l.invited].is_active = TRUE]
               /\ codes' = [codes EXCEPT ![l.code].is_used = TRUE,
                                         ![l.code].used_by_teacher_id = l.invited]
               /\ Finish(p, [p |-> p, op |-> "consume", status |-> "OK",
                             code |-> l.code, u |-> l.invited, email |-> l.email,
                             kind |-> "activated"])
               /\ UNCHANGED <<now, schools, nextId, nextCode, trash, nextTid, issued, enrollments, classroom_teachers>>

\* unbound (legacy) code: get_user_by_email
ConsumeCheckEmail(p) ==
    /\ At(p, "rt_email")
    /\ LET l == loc[p]
       IN IF get_user_by_email(l.email) # {}
          THEN Goto(p, "rt_none", [op |-> "consume", code |-> l.code, email |-> l.email])
          ELSE Goto(p, "rt_flush", l)
    /\ UNCHANGED <<now, store>>

\* variant: the teacher is committed on its own, before the code is marked
ConsumeFlushCommitting(p) ==
    /\ At(p, "rt_flush")
    /\ LET l == loc[p]
           r == NewUser(l.email, l.school, "teacher", TRUE, NoNumber, "pw")
       IN /\ ~Blocked(p, r)
          /\ IF UniqueViolation(p, r)
             THEN Rollback(p, "consume", ViolatedConstraint(p, r)) /\ UNCHANGED store
             ELSE /\ nextId <= MaxUsers
                  /\ users' = InsertedUsers(<<r>>)
                  /\ nextId' = nextId + 1
                  /\ Goto(p, "rt_commit_u",
                          [op |-> "consume", code |-> l.code, email |-> l.email,
                           pending |-> <<>>])
                  /\ UNCHANGED <<schools, codes, nextCode, trash, nextTid, issued, enrollments, classroom_teachers>>
    /\ UNCHANGED now

\* unbound code: db.add(teacher); db.flush()
ConsumeFlush(p) ==
    /\ At(p, "rt_flush")
    /\ LET l == loc[p]
           r == NewUser(l.email, l.school, "teacher", TRUE, NoNumber, "pw")
       IN /\ ~Blocked(p, r)
          /\ IF UniqueViolation(p, r)
             THEN Rollback(p, "consume", ViolatedConstraint(p, r))
             ELSE Goto(p, "rt_commit_u",
                       [op |-> "consume", code |-> l.code, email |-> l.email,
                        pending |-> <<r>>])
    /\ UNCHANGED <<now, store>>

\* unbound code, commit: UPDATE the code, COMMIT the teacher and the code
ConsumeCommitUnbound(p) ==
    /\ At(p, "rt_commit_u")
    /\ LET l == loc[p]
       IN IF l.code \notin DOMAIN codes
          THEN /\ Rollback(p, "consume", "StaleDataError")
               /\ UNCHANGED <<now, store>>
          ELSE /\ nextId <= MaxUsers
               /\ users' = InsertedUsers(l.pending)
               /\ nextId' = nextId + Len(l.pending)
               /\ codes' = [codes EXCEPT ![l.code].is_used = TRUE,
                                         ![l.code].used_by_teacher_id = nextId]
               /\ Finish(p, [p |-> p, op |-> "consume", status |-> "OK",
                             code |-> l.code, u |-> nextId, email |-> l.email,
                             kind |-> "created"])
               /\ UNCHANGED <<now, schools, nextCode, trash, nextTid, issued, enrollments, classroom_teachers>>

\* variant: the 400 names a used code
ConsumeRejectedNamingUse(p) ==
    /\ At(p, "rt_none")
    /\ Finish(p, [p |-> p, op |-> "consume", code |-> loc[p].code,
                  email |-> loc[p].email,
                  status |-> IF get_user_by_email(loc[p].email) # {}
                             THEN "DUPLICATE_EMAIL"
                             ELSE IF loc[p].code \in DOMAIN codes /\ codes[loc[p].code].is_used
                             THEN "CODE_USED" ELSE "INVALID_OR_EXPIRED"])
    /\ UNCHANGED <<now, store>>

\* register_teacher after create_teacher_with_code returned None:
\* get_user_by_email chooses the detail of the 400
ConsumeRejected(p) ==
    /\ At(p, "rt_none")
    /\ Finish(p, [p |-> p, op |-> "consume", code |-> loc[p].code,
                  email |-> loc[p].email,
                  status |-> IF get_user_by_email(loc[p].email) # {}
                             THEN "DUPLICATE_EMAIL" ELSE "INVALID_OR_EXPIRED"])
    /\ UNCHANGED <<now, store>>

\* ------------------------------------------------- bulk reconciliation importer
\* the row counter moves on; after the last row the batch commits
NextRow(l) == [l EXCEPT !.i = l.i + 1]
RowLabel(l) == IF l.i + 1 > Len(l.rows) THEN "im_commit" ELSE "im_row"

\* variant: an existing identity is checked for its role only
RowProblemIgnoringSchool(x, school) ==
    IF x.role # "student" THEN "not a student" ELSE ""

\* the checks on the identity an email resolves to
RowProblem(x, school) ==
    IF x.school # school THEN "other school"
    ELSE IF x.role # "student" THEN "not a student"
    ELSE ""

\* once the student of the row is known: the class_id column, if any
AfterStudent(p, l, student) ==
    IF l.rows[l.i].class = ""
    THEN Goto(p, RowLabel(l), NextRow(l))
    ELSE Goto(p, "im_class", [student |-> student] @@ l)

\* variant: the membership is never found
IsEnrolledNever(l, c, student) == FALSE

\* add_student_to_class, SELECT: the membership as this session sees it
IsEnrolled(l, c, student) ==
    \/ ~student.new /\ <<c, student.id>> \in enrollments
    \/ \E k \in 1..Len(l.enrol) : l.enrol[k] = [class |-> c] @@ student

\* an INSERT into class_enrollments waits for an uncommitted row with its key
EnrolBlocked(p, c, student) ==
    /\ ~student.new
    /\ \E q \in Procs \ {p} :
         /\ "enrol" \in DOMAIN loc[q]
         /\ \E k \in 1..Len(loc[q].enrol) : loc[q].enrol[k] = [class |-> c] @@ student

\* import_students_from_csv: decode, parse, pre-resolve the emails of the
\* batch with one get_users_by_emails.  rerun records that the request
\* repeats the batch the previous request imported into the same school.
ImportStart(p, a, batch) ==
    /\ Begin(p)
    /\ IsActingAdmin(a)
    /\ nextId <= MaxUsers
    /\ LET provided == {batch[k].email : k \in {j \in 1..Len(batch) : batch[j].named}} \ {""}
           found == {e \in provided : get_user_by_email(e) # {}}
       IN Goto(p, "im_row",
               [op |-> "import", school |-> users[a].school, rows |-> batch,
                i |-> 1, seen |-> {}, pending |-> <<>>, enrol |-> <<>>,
                existing |-> [e \in found |->
                               LET u == CHOOSE i \in get_user_by_email(e) : TRUE
                               IN [id |-> u, school |-> users[u].school,
                                   role |-> users[u].role]],
                created |-> 0, enrolled |-> 0, skipped |-> 0, errors |-> <<>>,
                failed |-> FALSE,
                rerun |-> /\ resp.op = "import"
                          /\ resp.status = "OK"
                          /\ resp.rows = batch
                          /\ resp.school = users[a].school])
    /\ UNCHANGED <<now, store>>

\* import_roster_from_csv: get_class_by_id of the class of the request,
\* then the same pre-resolution; every row is enrolled in that class
RosterImportStart(p, a, c, batch) ==
    /\ Begin(p)
    /\ IsActingAdmin(a)
    /\ nextId <= MaxUsers
    /\ IF c \notin Classes \/ ClassSchool[c] # users[a].school
       THEN Finish(p, [p |-> p, op |-> "import_roster", status |-> "CLASS_NOT_FOUND"])
       ELSE LET rows == [k \in DOMAIN batch |-> [batch[k] EXCEPT !.class = c]]
                provided == {rows[k].email : k \in {j \in 1..Len(rows) : rows[j].named}}
                            \ {""}
                found == {e \in provided : get_user_by_email(e) # {}}
            IN Goto(p, "im_row",
                    [op |-> "import", school |-> users[a].school, rows |-> rows,
                     i |-> 1, seen |-> {}, pending |-> <<>>, enrol |-> <<>>,
                     existing |-> [e \in found |->
                                    LET u == CHOOSE i \in get_user_by_email(e) : TRUE
                                    IN [id |-> u, school |-> users[u].school,
                                        role |-> users[u].role]],
                     created |-> 0, enrolled |-> 0, skipped |-> 0, errors |-> <<>>,
                     failed |-> FALSE,
                     rerun |-> /\ resp.op = "import"
                               /\ resp.status = "OK"
                               /\ resp.rows = rows
                               /\ resp.school = users[a].school])
    /\ UNCHANGED <<now, store>>

\* one row up to its create_user: the names, seen emails, the pre-resolved
\* identity, the number allocation or pre-check.  A SELECT of create_user
\* that raises is caught as a row error, and it leaves the database
\* transaction aborted (failed): every later statement raises.
ImportRow(p) ==
    /\ At(p, "im_row")
    /\ \E s \in SynthEmails :
         LET l == loc[p]
             row == l.rows[l.i]
             email == IF row.email = "" THEN s ELSE row.email
             sn == Strip(row.sn)
             ls == [l EXCEPT !.seen = l.seen \cup {email}]
         IN IF ~row.named
            THEN Goto(p, RowLabel(l), NextRow(
                   [l EXCEPT !.errors = Append(l.errors, <<l.i + 1, "names required">>)]))
            ELSE IF email \in l.seen
            THEN Goto(p, RowLabel(l), NextRow([l EXCEPT !.skipped = l.skipped + 1]))
            ELSE IF email \in DOMAIN l.existing
            THEN IF RowProblem(l.existing[email], l.school) # ""
                 THEN Goto(p, RowLabel(l), NextRow(
                        [ls EXCEPT !.errors = Append(l.errors,
                            <<l.i + 1, RowProblem(l.existing[email], l.school)>>)]))
                 ELSE AfterStudent(p, ls, [new |-> FALSE, id |-> l.existing[email].id])
            ELSE IF l.failed
            THEN Goto(p, RowLabel(l), NextRow(
                   [ls EXCEPT !.errors = Append(l.errors, <<l.i + 1, "failed to create">>)]))
            ELSE IF sn = NoNumber /\ generate_next_student_number(
                                         Visible(p), l.school, now) = AllocatorError
            THEN Goto(p, RowLabel(l), NextRow(
                   [ls EXCEPT !.errors = Append(l.errors, <<l.i + 1, "failed to create">>),
                              !.failed = TRUE]))
            ELSE IF sn = NoNumber
            THEN Goto(p, "im_flush",
                      [new |-> NewUser(email, l.school, "student", TRUE,
                                       generate_next_student_number(
                                           Visible(p), l.school, now), "default")]
                      @@ ls)
            ELSE IF \E x \in Visible(p) : x.school = l.school /\ x.student_number = sn
            THEN Goto(p, RowLabel(l), NextRow(
                   [ls EXCEPT !.errors = Append(l.errors, <<l.i + 1, "duplicate number">>)]))
            ELSE Goto(p, "im_flush",
                      [new |-> NewUser(email, l.school, "student", TRUE, sn,
                                       "default")] @@ ls)
    /\ UNCHANGED <<now, store>>

\* variant: create_user commits the row (auto_commit=True)
ImportFlushCommitting(p) ==
    /\ At(p, "im_flush")
    /\ LET l == loc[p]
           rest == [k \in DOMAIN l \ {"new"} |-> l[k]]
       IN IF CharLen(l.new.student_number) > StudentNumberMaxLen
          THEN Rollback(p, "import", "DataError") /\ UNCHANGED <<now, store>>
          ELSE /\ ~Blocked(p, l.new)
               /\ IF UniqueViolation(p, l.new)
                  THEN /\ Rollback(p, "import", ViolatedConstraint(p, l.new))
                       /\ UNCHANGED <<now, store>>
                  ELSE /\ nextId + Len(l.pending) <= MaxUsers
                       /\ users' = InsertedUsers(Append(l.pending, l.new))
                       /\ nextId' = nextId + Len(l.pending) + 1
                       /\ AfterStudent(p,
                              [rest EXCEPT !.pending = <<>>, !.enrol = <<>>,
                                           !.created = l.created + 1],
                              [new |-> FALSE, id |-> nextId + Len(l.pending)])
                       /\ UNCHANGED <<now, schools, codes, nextCode, trash, nextTid,
                                      issued, enrollments, classroom_teachers>>

\* create_user(auto_commit=False): INSERT the row (flush).  A DataError or an
\* IntegrityError is caught as a row error, but it has rolled the transaction
\* back: no later statement of the batch succeeds and the final commit
\* raises, so the request ends with nothing written.
ImportFlush(p) ==
    /\ At(p, "im_flush")
    /\ LET l == loc[p]
           rest == [k \in DOMAIN l \ {"new"} |-> l[k]]
       IN IF CharLen(l.new.student_number) > StudentNumberMaxLen
          THEN Rollback(p, "import", "DataError")
          ELSE /\ ~Blocked(p, l.new)
               /\ IF UniqueViolation(p, l.new)
                  THEN Rollback(p, "import", ViolatedConstraint(p, l.new))
                  ELSE /\ nextId + Len(l.pending) <= MaxUsers
                       /\ AfterStudent(p,
                              [rest EXCEPT !.pending = Append(l.pending, l.new),
                                           !.created = l.created + 1],
                              [new |-> TRUE, id |-> Len(l.pending) + 1])
    /\ UNCHANGED <<now, store>>

\* the class_id of the row: get_class_by_id, then the SELECT of
\* add_student_to_class
ImportClass(p) ==
    /\ At(p, "im_class")
    /\ LET l == loc[p]
           c == l.rows[l.i].class
           rest == [k \in DOMAIN l \ {"student"} |-> l[k]]
       IN IF l.failed
          THEN Rollback(p, "import", "InFailedSQLTransaction")
          ELSE IF c \notin Classes \/ ClassSchool[c] # l.school
          THEN Goto(p, RowLabel(l), NextRow(
                 [rest EXCEPT !.errors = Append(l.errors, <<l.i + 1, "invalid class">>)]))
          ELSE IF IsEnrolled(l, c, l.student)
          THEN Goto(p, RowLabel(l), NextRow([rest EXCEPT !.skipped = l.skipped + 1]))
          ELSE Goto(p, "im_enrol", l)
    /\ UNCHANGED <<now, store>>

\* add_student_to_class(auto_commit=False): INSERT the membership.  An
\* IntegrityError here is caught by nothing.
ImportEnrol(p) ==
    /\ At(p, "im_enrol")
    /\ LET l == loc[p]
           c == l.rows[l.i].class
           rest == [k \in DOMAIN l \ {"student"} |-> l[k]]
       IN /\ ~EnrolBlocked(p, c, l.student)
          /\ IF /\ ~l.student.new
                /\ \/ <<c, l.student.id>> \in enrollments
                   \/ l.student.id \notin DOMAIN users
             THEN Rollback(p, "import", "class_enrollments")
             ELSE Goto(p, RowLabel(l), NextRow(
                    [rest EXCEPT !.enrol = Append(l.enrol, [class |-> c] @@ l.student),
                                 !.enrolled = l.enrolled + 1]))
    /\ UNCHANGED <<now, store>>

\* the memberships the batch has inserted, under the keys of its new users
InsertedEnrollments(l) ==
    {<<l.enrol[k].class,
       IF l.enrol[k].new THEN nextId + l.enrol[k].id - 1 ELSE l.enrol[k].id>> :
         k \in 1..Len(l.enrol)}

\* the single commit after the last row.  The COMMIT of an aborted
\* transaction is answered by the server with a rollback and no error.
ImportCommit(p) ==
    /\ At(p, "im_commit")
    /\ LET l == loc[p]
       IN /\ nextId + Len(l.pending) - 1 <= MaxUsers
          /\ users' = IF l.failed THEN users ELSE InsertedUsers(l.pending)
          /\ nextId' = IF l.failed THEN nextId ELSE nextId + Len(l.pending)
          /\ enrollments' = IF l.failed THEN enrollments
                            ELSE enrollments \cup
                                 {e \in InsertedEnrollments(l) : e[2] \in DOMAIN users'}
          /\ Finish(p, [p |-> p, op |-> "import", status |-> "OK",
                        school |-> l.school, rows |-> l.rows,
                        created |-> l.created, enrolled |-> l.enrolled,
                        skipped |-> l.skipped, errors |-> l.errors,
                        rerun |-> l.rerun])
    /\ UNCHANGED <<now, schools, codes, nextCode, trash, nextTid, issued,
                   classroom_teachers>>

\* ------------------------------------------------------ teacher bulk import
TeacherRowLabel(l) == IF l.i + 1 > Len(l.rows) THEN "ti_commit" ELSE "ti_row"

\* import_teachers_from_csv: decode, parse, one get_existing_emails for the
\* emails of the rows that have both names and an email
TeacherImportStart(p, a, batch) ==
    /\ Begin(p)
    /\ IsActingAdmin(a)
    /\ nextId <= MaxUsers
    /\ LET emails_to_check ==
               {batch[k].email : k \in {j \in 1..Len(batch) : batch[j].named}} \ {""}
       IN Goto(p, "ti_row",
               [op |-> "import_teachers", admin |-> a, school |-> users[a].school,
                rows |-> batch, i |-> 1, seen_emails |-> {},
                existing_emails |-> {e \in emails_to_check : get_user_by_email(e) # {}},
                pending |-> <<>>, invited |-> <<>>, assigned |-> <<>>,
                created |-> 0, skipped |-> 0, errors |-> <<>>])
    /\ UNCHANGED <<now, store>>

\* variant: a repeated email of the batch is reported as already existing
TeacherImportRowNoSeen(p) ==
    /\ At(p, "ti_row")
    /\ LET l == loc[p]
           row == l.rows[l.i]
           ls == [l EXCEPT !.seen_emails = l.seen_emails \cup {row.email}]
           Error(m, reason) ==
               Goto(p, TeacherRowLabel(l), NextRow(
                   [m EXCEPT !.errors = Append(l.errors, <<l.i + 1, reason>>)]))
       IN IF ~row.named THEN Error(l, "names required")
          ELSE IF row.email = "" THEN Error(l, "email required")
          ELSE IF row.email \in l.existing_emails THEN Error(ls, "already exists")
          ELSE IF row.classroom # "" /\ row.classroom \notin ValidUUIDs
          THEN Error(ls, "invalid classroom_id")
          ELSE Goto(p, "ti_flush",
                    [new |-> NewUser(row.email, l.school, "teacher", FALSE, NoNumber,
                                     "placeholder")] @@ ls)
    /\ UNCHANGED <<now, store>>

\* one row up to its create_invited_teacher: names, email, seen_emails,
\* existing_emails, the classroom_id string
TeacherImportRow(p) ==
    /\ At(p, "ti_row")
    /\ LET l == loc[p]
           row == l.rows[l.i]
           ls == [l EXCEPT !.seen_emails = l.seen_emails \cup {row.email}]
           Error(m, reason) ==
               Goto(p, TeacherRowLabel(l), NextRow(
                   [m EXCEPT !.errors = Append(l.errors, <<l.i + 1, reason>>)]))
       IN IF ~row.named THEN Error(l, "names required")
          ELSE IF row.email = "" THEN Error(l, "email required")
          ELSE IF row.email \in l.seen_emails
          THEN Goto(p, TeacherRowLabel(l), NextRow([l EXCEPT !.skipped = l.skipped + 1]))
          ELSE IF row.email \in l.existing_emails THEN Error(ls, "already exists")
          ELSE IF row.classroom # "" /\ row.classroom \notin ValidUUIDs
          THEN Error(ls, "invalid classroom_id")
          ELSE Goto(p, "ti_flush",
                    [new |-> NewUser(row.email, l.school, "teacher", FALSE, NoNumber,
                                     "placeholder")] @@ ls)
    /\ UNCHANGED <<now, store>>

\* variant: the code of a row is built without an expiry
TeacherImportFlushNoExpiry(p) ==
    /\ At(p, "ti_flush")
    /\ LET l == loc[p]
           rest == [k \in DOMAIN l \ {"new"} |-> l[k]]
           m == [rest EXCEPT
                   !.pending = Append(l.pending, l.new),
                   !.existing_emails = l.existing_emails \cup {l.new.email},
                   !.invited = Append(l.invited,
                                      [id |-> Len(l.pending) + 1, email |-> l.new.email,
                                       expires_at |-> NULL])]
       IN /\ ~Blocked(p, l.new)
          /\ IF UniqueViolation(p, l.new)
             THEN Rollback(p, "import_teachers", ViolatedConstraint(p, l.new))
             ELSE /\ nextId + Len(l.pending) <= MaxUsers
                  /\ IF l.rows[l.i].classroom = ""
                     THEN Goto(p, TeacherRowLabel(l),
                               NextRow([m EXCEPT !.created = l.created + 1]))
                     ELSE Goto(p, "ti_class", m)
    /\ UNCHANGED <<now, store>>

\* create_invited_teacher: INSERT the inactive teacher (flush), which no
\* handler of the import catches; then the TeacherAccessCode of the row is
\* built with expires_at = utcnow() + 7 days and added to the session
TeacherImportFlush(p) ==
    /\ At(p, "ti_flush")
    /\ LET l == loc[p]
           rest == [k \in DOMAIN l \ {"new"} |-> l[k]]
           m == [rest EXCEPT
                   !.pending = Append(l.pending, l.new),
                   !.existing_emails = l.existing_emails \cup {l.new.email},
                   !.invited = Append(l.invited,
                                      [id |-> Len(l.pending) + 1, email |-> l.new.email,
                                       expires_at |-> now + CodeTTLDays])]
       IN /\ ~Blocked(p, l.new)
          /\ IF UniqueViolation(p, l.new)
             THEN Rollback(p, "import_teachers", ViolatedConstraint(p, l.new))
             ELSE /\ nextId + Len(l.pending) <= MaxUsers
                  /\ IF l.rows[l.i].classroom = ""
                     THEN Goto(p, TeacherRowLabel(l),
                               NextRow([m EXCEPT !.created = l.created + 1]))
                     ELSE Goto(p, "ti_class", m)
    /\ UNCHANGED <<now, store>>

\* add_teacher_to_classroom(auto_commit=False, skip_user_validation=True):
\* get_classroom_by_id in the school, the SELECT of the membership, its
\* INSERT.  The teacher is new, so no other session holds the key; a
\* classroom that is not found adds nothing and raises nothing.
TeacherImportClass(p) ==
    /\ At(p, "ti_class")
    /\ LET l == loc[p]
           c == l.rows[l.i].classroom
           m == [l EXCEPT !.created = l.created + 1]
       IN IF c \in Classrooms /\ ClassroomSchool[c] = l.school
          THEN Goto(p, TeacherRowLabel(l), NextRow(
                 [m EXCEPT !.assigned = Append(l.assigned,
                                               [classroom |-> c, id |-> Len(l.pending)])]))
          ELSE Goto(p, TeacherRowLabel(l), NextRow(m))
    /\ UNCHANGED <<now, store>>

\* the codes the batch has added, under the keys the commit gives them
InsertedCodes(l) ==
    [c \in DOMAIN codes \cup (nextCode..(nextCode + Len(l.invited) - 1)) |->
       IF c \in DOMAIN codes THEN codes[c]
       ELSE [school |-> l.school, created_by_admin_id |-> l.admin,
             invited_teacher_id |-> nextId + l.invited[c - nextCode + 1].id - 1,
             expires_at |-> l.invited[c - nextCode + 1].expires_at,
             is_used |-> FALSE, used_by_teacher_id |-> NULL]]

\* the single commit after the last row: the access codes are flushed, then
\* COMMIT; the result carries one invitation per created teacher
TeacherImportCommit(p) ==
    /\ At(p, "ti_commit")
    /\ LET l == loc[p]
       IN /\ nextId + Len(l.pending) - 1 <= MaxUsers
          /\ nextCode + Len(l.invited) - 1 <= MaxBatchCodes
          /\ users' = InsertedUsers(l.pending)
          /\ nextId' = nextId + Len(l.pending)
          /\ codes' = InsertedCodes(l)
          /\ nextCode' = nextCode + Len(l.invited)
          /\ classroom_teachers' =
                classroom_teachers \cup
                {<<l.assigned[k].classroom, nextId + l.assigned[k].id - 1>> :
                   k \in 1..Len(l.assigned)}
          /\ Finish(p, [p |-> p, op |-> "import_teachers", status |-> "OK",
                        school |-> l.school, rows |-> l.rows,
                        created |-> l.created, skipped |-> l.skipped,
                        errors |-> l.errors,
                        invitations |-> [k \in 1..Len(l.invited) |->
                                          [email |-> l.invited[k].email,
                                           code |-> nextCode + k - 1]]])
    /\ UNCHANGED <<now, schools, trash, nextTid, issued, enrollments>>

\* an exception or a cancellation inside a request: get_db rolls back
Abort(p) ==
    /\ pc[p] # "idle"
    /\ UNCHANGED budget
    /\ Rollback(p, loc[p].op, "aborted")
    /\ UNCHANGED <<now, store>>

\* the clock (datetime.utcnow) advances between statements
Tick ==
    /\ \E d \in TickSteps : now + d <= MaxTime /\ now' = now + d
    /\ resp' = NoResponse
    /\ UNCHANGED <<store, pc, loc, budget>>

\* the database after the first school registered: its admin, one enrolled
\* student, and one legacy access code bound to no invited teacher
Start(n) ==
    /\ now = 0
    /\ schools = {"t1"}
    /\ users = [i \in {1, 2} |->
                 IF i = 1
                 THEN [email |-> "a", school |-> "t1", role |-> "school_admin",
                       is_active |-> TRUE, deleted_at |-> NULL,
                       student_number |-> NoNumber, pw |-> "pw"]
                 ELSE [email |-> "b", school |-> "t1", role |-> "student",
                       is_active |-> TRUE, deleted_at |-> NULL,
                       student_number |-> <<"Y1", "-", "0", "0", "1">>,
                       pw |-> "default"]]
    /\ nextId = 3
    /\ codes = [c \in {1} |->
                 [school |-> "t1", created_by_admin_id |-> 1,
                  invited_teacher_id |-> NULL, expires_at |-> NULL,
                  is_used |-> FALSE, used_by_teacher_id |-> NULL]]
    /\ nextCode = 2
    /\ trash = <<>>
    /\ nextTid = 1
    /\ pc = [p \in Procs |-> "idle"]
    /\ loc = [p \in Procs |-> Idle]
    /\ resp = NoResponse
    /\ budget = n
    /\ issued = {}
    /\ enrollments = {}
    /\ classroom_teachers = {}

\* two schools whose admins gave their students identifiers of their own:
\* the admin of t1 and two students, each of either school
StartAllocator(n) ==
    /\ now = 0
    /\ schools = Tenants
    /\ \E s2 \in Tenants, s3 \in Tenants, n2 \in AllocatorNumbers, n3 \in AllocatorNumbers :
         /\ s2 = s3 => n2 # n3
         /\ users = [i \in {1, 2, 3} |->
                      IF i = 1
                      THEN [email |-> "a", school |-> "t1", role |-> "school_admin",
                            is_active |-> TRUE, deleted_at |-> NULL,
                            student_number |-> NoNumber, pw |-> "pw"]
                      ELSE [email |-> IF i = 2 THEN "b" ELSE "c",
                            school |-> IF i = 2 THEN s2 ELSE s3,
                            role |-> "student",
                            is_active |-> TRUE, deleted_at |-> NULL,
                            student_number |-> IF i = 2 THEN n2 ELSE n3,
                            pw |-> "default"]]
    /\ nextId = 4
    /\ codes = <<>>
    /\ nextCode = 1
    /\ trash = <<>>
    /\ nextTid = 1
    /\ pc = [p \in Procs |-> "idle"]
    /\ loc = [p \in Procs |-> Idle]
    /\ resp = NoResponse
    /\ budget = n
    /\ issued = {}
    /\ enrollments = {}
    /\ classroom_teachers = {}

\* ------------------------------------------------------------ the requests
\* POST /teachers/import
TeacherImportOps(p) ==
    \/ \E a \in Ids, batch \in TeacherBatches : TeacherImportStart(p, a, batch)
    \/ TeacherImportRow(p)
    \/ TeacherImportFlush(p)
    \/ TeacherImportClass(p)
    \/ TeacherImportCommit(p)

\* POST /teachers
InviteOps(p) ==
    \/ \E a \in Ids, e \in Emails : InviteStart(p, a, e)
    \/ InviteFlush(p)
    \/ InviteCommit(p)

\* student trash: DELETE /students/{id}, POST /students/{id}/restore,
\* POST /students/trash/cleanup
RetentionOps(p) ==
    \/ \E u \in Ids : SoftDeleteRead(p, u)
    \/ SoftDeleteCommit(p)
    \/ \E u \in Ids : RestoreRead(p, u)
    \/ RestoreReadTrash(p)
    \/ RestoreCommit(p)
    \/ SweepRead(p)
    \/ SweepGet(p)
    \/ SweepCommit(p)

\* DELETE /users/{id}
DeleteOps(p) ==
    \/ \E u \in Ids : DeleteUserRead(p, u)
    \/ DeleteUserCommit(p)

\* POST /students
StudentOpsOver(p, numbers) ==
    \/ \E a \in Ids, e \in Emails \cup {""}, sn \in numbers :
         CreateStudentStart(p, a, e, sn)
    \/ CreateStudentNumber(p)
    \/ CreateStudentCommit(p)

StudentOps(p) == StudentOpsOver(p, SuppliedNumbers \cup {NoNumber})

\* POST /auth/register/school, PUT /users/{id}
AccountOps(p) ==
    \/ \E e \in Emails : RegisterSchoolStart(p, e)
    \/ RegisterSchoolCommit(p)
    \/ \E u \in Ids, e \in Emails : UpdateUserStart(p, u, e)
    \/ UpdateUserCommit(p)

\* POST /teachers, POST /auth/verify-code, POST /auth/register/teacher
LedgerOps(p) ==
    \/ \E c \in CodeIds : VerifyCode(p, c)
    \/ \E a \in Ids, e \in Emails : InviteStart(p, a, e)
    \/ InviteFlush(p)
    \/ InviteCommit(p)
    \/ \E c \in CodeIds, e \in Emails : ConsumeStart(p, c, e)
    \/ ConsumeGetTeacher(p)
    \/ ConsumeCommitBound(p)
    \/ ConsumeCheckEmail(p)
    \/ ConsumeFlush(p)
    \/ ConsumeCommitUnbound(p)
    \/ ConsumeRejected(p)

\* POST /students/import
ImportOps(p) ==
    \/ \E a \in Ids, batch \in Batches : ImportStart(p, a, batch)
    \/ ImportRow(p)
    \/ ImportFlush(p)
    \/ ImportClass(p)
    \/ ImportEnrol(p)
    \/ ImportCommit(p)

\* POST /classes/{id}/roster/import: the loop of the student import
RosterOps(p) ==
    \/ \E a \in Ids, c \in Classes \cup {"k0"}, batch \in Batches :
         RosterImportStart(p, a, c, batch)
    \/ ImportRow(p)
    \/ ImportFlush(p)
    \/ ImportClass(p)
    \/ ImportEnrol(p)
    \/ ImportCommit(p)

\* the whole engine, its requests interleaving at every await
Init == Start(MaxRequests)

Next ==
    \/ Tick
    \/ \E p \in Procs :
         \/ RetentionOps(p)
         \/ DeleteOps(p)
         \/ StudentOps(p)
         \/ AccountOps(p)
         \/ LedgerOps(p)
         \/ ImportOps(p)
         \/ Abort(p)

Spec == Init /\ [][Next]_vars

\* the access code ledger under concurrent requests
InitLedger == Start(LedgerRequests)
NextLedger ==
    \/ Tick
    \/ \E p \in Procs : LedgerOps(p) \/ Abort(p)
SpecLedger == InitLedger /\ [][NextLedger]_vars

\* the access code ledger, one request at a time
InitSeqLedger == Start(SeqLedgerRequests)
NextSeqLedger ==
    \/ Tick
    \/ LedgerOps("p1")
    \/ Abort("p1")
SpecSeqLedger == InitSeqLedger /\ [][NextSeqLedger]_vars

\* identity creation under concurrent requests
InitUpsert == Start(UpsertRequests)
NextUpsert ==
    \E p \in Procs :
        \/ StudentOps(p)
        \/ AccountOps(p)
        \/ LedgerOps(p)
        \/ ImportOps(p)
        \/ Abort(p)
SpecUpsert == InitUpsert /\ [][NextUpsert]_vars

\* the student trash under concurrent requests
InitRetention == Start(RetentionRequests)
NextRetention ==
    \/ Tick
    \/ \E p \in Procs : RetentionOps(p) \/ DeleteOps(p) \/ Abort(p)
SpecRetention == InitRetention /\ [][NextRetention]_vars

\* student creation and the student trash, one request at a time
InitSeqRetention == Start(SeqRetentionRequests)
NextSeqRetention ==
    \/ Tick
    \/ StudentOps("p1")
    \/ RetentionOps("p1")
    \/ Abort("p1")
SpecSeqRetention == InitSeqRetention /\ [][NextSeqRetention]_vars

\* school registration, account updates and bulk imports, one request at a
\* time
InitSeqImport == Start(SeqImportRequests)
NextSeqImport ==
    \/ AccountOps("p1")
    \/ ImportOps("p1")
    \/ Abort("p1")
SpecSeqImport == InitSeqImport /\ [][NextSeqImport]_vars

\* the allocator over the identifiers a school may hold: student creation
\* without a student_id and soft deletion, one request at a time
InitAllocator == StartAllocator(AllocatorRequests)
NextAllocator ==
    \/ Tick
    \/ StudentOpsOver("p1", {NoNumber})
    \/ \E u \in Ids : SoftDeleteRead("p1", u)
    \/ SoftDeleteCommit("p1")
    \/ Abort("p1")
SpecAllocator == InitAllocator /\ [][NextAllocator]_vars

\* school registration, account updates and student creation with any
\* student_id, one request at a time
InitSeqStudent == Start(SeqStudentRequests)
NextSeqStudent ==
    \/ AccountOps("p1")
    \/ StudentOpsOver("p1", SuppliedNumbers \cup {NoNumber, PaddedNumber, LongNumber})
    \/ Abort("p1")
SpecSeqStudent == InitSeqStudent /\ [][NextSeqStudent]_vars

\* the student trash with the progress the runtime gives, one request at a
\* time: the clock advances, and the event loop resumes a request whose
\* database reply has arrived, so a request that has started runs to its
\* end.  Nothing in the application starts a request: POST
\* /students/trash/cleanup runs when a client sends it.
InitFairRetention == Start(FairRetentionRequests)
NextFairRetention ==
    \/ Tick
    \/ RetentionOps("p1")
    \/ Abort("p1")
FairRetention ==
    /\ WF_vars(Tick)
    /\ WF_vars(SoftDeleteCommit("p1"))
    /\ WF_vars(RestoreReadTrash("p1"))
    /\ WF_vars(RestoreCommit("p1"))
    /\ WF_vars(SweepGet("p1"))
    /\ WF_vars(SweepCommit("p1"))
SpecFairRetention == InitFairRetention /\ [][NextFairRetention]_vars /\ FairRetention

\* teacher invitations, single and in bulk, one request at a time
InitSeqInvite == Start(SeqInviteRequests)
NextSeqInvite ==
    \/ Tick
    \/ InviteOps("p1")
    \/ TeacherImportOps("p1")
    \/ Abort("p1")
SpecSeqInvite == InitSeqInvite /\ [][NextSeqInvite]_vars

\* the two bulk imports on one worker, with invitations and student
\* creations running on the other worker at the same time
InitImports == Start(ImportsRequests)
NextImports ==
    \/ ImportOps("p1")
    \/ TeacherImportOps("p1")
    \/ InviteOps("p2")
    \/ StudentOpsOver("p2", {NoNumber})
    \/ \E p \in Procs : Abort(p)
SpecImports == InitImports /\ [][NextImports]_vars

\* roster imports into a class, one request at a time
InitSeqRoster == Start(SeqRosterRequests)
NextSeqRoster ==
    \/ RosterOps("p1")
    \/ Abort("p1")
SpecSeqRoster == InitSeqRoster /\ [][NextSeqRoster]_vars

\* ------------------------------------------------------------ properties
\* the emails held by the identities of the store
EmailsHeld == {users[i].email : i \in DOMAIN users}

\* the step ends a request of kind op with status st
Answered(op, st) == resp'.op = op /\ resp'.status = st

\* the step is a client abort, not an answer of the engine
Aborted == resp'.status = "ERROR" /\ resp'.detail = "aborted"

EmailUnique ==
    \A i, j \in DOMAIN users : i # j => users[i].email # users[j].email

\* C1: under any interleaving of concurrent consumptions of one access code
\* at most one succeeds: no consumption succeeds on a code that an earlier
\* successful consumption has already marked used.
C1_AtMostOneConsumption ==
    [][Answered("consume", "OK") => ~codes[resp'.code].is_used]_vars

\* C2: one request at a time, every consumption of a code that is already
\* used fails (whatever email it presents) and writes nothing, and verify of
\* a used code fails.
C2_UsedCodeRejected ==
    [][/\ (resp'.op = "consume" /\ resp'.code \in DOMAIN codes
              /\ codes[resp'.code].is_used)
          => /\ resp'.status \in {"INVALID_OR_EXPIRED", "DUPLICATE_EMAIL", "ERROR"}
             /\ UNCHANGED store
       /\ (resp'.op = "verify" /\ resp'.code \in DOMAIN codes
              /\ codes[resp'.code].is_used)
          => /\ resp'.status = "INVALID_OR_EXPIRED"
             /\ resp'.school = "None"
             /\ UNCHANGED store]_vars

\* a second consumption of a used invitation (bound) code was rejected
C2_Witness ==
    /\ resp.op = "consume"
    /\ resp.status = "INVALID_OR_EXPIRED"
    /\ resp.code \in DOMAIN codes
    /\ codes[resp.code].is_used
    /\ codes[resp.code].invited_teacher_id # NULL

C4_StudentNumberUnique ==
    \A i, j \in DOMAIN users :
        (/\ i # j
         /\ users[i].school = users[j].school
         /\ users[i].student_number # NoNumber)
        => users[i].student_number # users[j].student_number

\* two requests allocated the same number; the index refused the second
C4_Witness ==
    /\ resp.op \in {"create_student", "import"}
    /\ resp.status = "ERROR"
    /\ resp.detail = "ix_users_school_student_number"

C6_TrashConsistent ==
    /\ \A u \in DOMAIN users : ~is_deleted(users[u]) => u \notin DOMAIN trash
    /\ \A u \in DOMAIN trash :
         /\ u \in DOMAIN users
         /\ is_deleted(users[u])
         /\ users[u].role = "student"

C8_TrashRoundTrip ==
    [][/\ Answered("soft_delete", "OK")
          => /\ ~is_deleted(users[resp'.u])
             /\ is_deleted(users'[resp'.u])
             /\ users' = [users EXCEPT ![resp'.u].deleted_at =
                                          users'[resp'.u].deleted_at]
       /\ Answered("restore", "OK")
          => /\ is_deleted(users[resp'.u])
             /\ users' = [users EXCEPT ![resp'.u].deleted_at = NULL]
             /\ resp'.u \notin DOMAIN trash'
       /\ (resp'.op = "soft_delete" /\ resp'.status = "ERROR") => Aborted
       /\ Answered("soft_delete", "NOT_FOUND")
          => resp'.u \notin DOMAIN users \/ is_deleted(users[resp'.u])]_vars

\* the enrolled student was soft-deleted, restored and soft-deleted again
C8_Witness ==
    /\ resp.op = "soft_delete"
    /\ resp.status = "OK"
    /\ resp.u = 2
    /\ nextId = 3
    /\ nextTid = 3
    /\ users[2].student_number = <<"Y1", "-", "0", "0", "1">>

\* C9: an identity disappears from the store only as a trashed identity
\* whose TrashRecord has expired.
C9_DestroyedOnlyByPurge ==
    [][\A u \in DOMAIN users \ DOMAIN users' :
         /\ is_deleted(users[u])
         /\ u \in DOMAIN trash
         /\ trash[u].expires_at <= now]_vars

\* a teacher that holds an account it can sign in to
Activated(us, u) ==
    /\ u \in DOMAIN us
    /\ us[u].role = "teacher"
    /\ us[u].is_active
    /\ us[u].pw = "pw"

\* C10: a consumption is atomic: the step that answers success is the one
\* step in which the identity is activated or created and the code is marked
\* used with that identity as its consumer; a consumption that fails, also
\* between its identity write and its code write, leaves identities and
\* codes as they were; no other step activates a teacher or marks a code.
C10_ConsumptionAtomic ==
    [][/\ Answered("consume", "OK")
          => /\ codes'[resp'.code].is_used
             /\ codes'[resp'.code].used_by_teacher_id = resp'.u
             /\ Activated(users', resp'.u)
       /\ (resp'.op = "consume" /\ resp'.status # "OK")
          => UNCHANGED <<users, codes>>
       /\ ~Answered("consume", "OK")
          => /\ \A c \in DOMAIN codes :
                  /\ c \in DOMAIN codes'
                  /\ codes'[c].is_used = codes[c].is_used
                  /\ codes'[c].used_by_teacher_id = codes[c].used_by_teacher_id
             /\ \A u \in DOMAIN users' : Activated(users', u) => Activated(users, u)
       /\ \A c \in DOMAIN codes' :
            /\ codes'[c].is_used = (codes'[c].used_by_teacher_id # NULL)
            /\ codes'[c].is_used => Activated(users', codes'[c].used_by_teacher_id)
            /\ (/\ codes'[c].invited_teacher_id # NULL
                /\ Activated(users', codes'[c].invited_teacher_id))
               => codes'[c].is_used]_vars

\* a consumption of an unbound code was cut off after its teacher was
\* flushed and before the code was marked: neither is in the store
C10_Witness ==
    /\ resp.op = "consume"
    /\ resp.status = "ERROR"
    /\ resp.detail = "aborted"
    /\ resp.at = "rt_commit_u"
    /\ ~codes[resp.code].is_used
    /\ resp.email \notin EmailsHeld

\* C11: a consumption that fails writes nothing: the step that answers a
\* failure leaves the whole store as it was (the code stays unused, no
\* identity appears, no active flag or password changes), and every listed
\* condition leads to that failure: a code that is absent, used or expired
\* at the lookup; a bound code whose invited identity is missing, is not a
\* teacher or has another email; an unbound code with an email already held.
C11_FailedConsumptionWritesNothing ==
    [][/\ (resp'.op = "consume" /\ resp'.status # "OK") => UNCHANGED store
       /\ \A p \in Procs :
            /\ (/\ pc[p] = "idle"
                /\ pc'[p] # "idle"
                /\ loc'[p].op = "consume"
                /\ \/ loc'[p].code \notin DOMAIN codes
                   \/ codes[loc'[p].code].is_used
                   \/ /\ codes[loc'[p].code].expires_at # NULL
                      /\ codes[loc'[p].code].expires_at <= now)
               => pc'[p] = "rt_none"
            /\ (pc[p] = "rt_get" /\ pc'[p] = "rt_commit_b")
               => /\ loc[p].invited \in DOMAIN users
                  /\ users[loc[p].invited].role = "teacher"
                  /\ users[loc[p].invited].email = loc[p].email
            /\ (pc[p] = "rt_email" /\ pc'[p] = "rt_flush")
               => loc[p].email \notin EmailsHeld
            /\ (pc[p] = "rt_none" /\ pc'[p] # "rt_none")
               => /\ resp'.op = "consume"
                  /\ resp'.status \in {"INVALID_OR_EXPIRED", "DUPLICATE_EMAIL", "ERROR"}
                  /\ UNCHANGED store]_vars

\* a bound code that is unused and not expired was presented with an email
\* other than the invited teacher's, and the consumption was rejected
C11_Witness ==
    /\ resp.op = "consume"
    /\ resp.status \in {"INVALID_OR_EXPIRED", "DUPLICATE_EMAIL"}
    /\ resp.code \in DOMAIN codes
    /\ ~codes[resp.code].is_used
    /\ codes[resp.code].expires_at # NULL
    /\ codes[resp.code].expires_at > now
    /\ codes[resp.code].invited_teacher_id \in DOMAIN users
    /\ users[codes[resp.code].invited_teacher_id].email # resp.email
    /\ ~users[codes[resp.code].invited_teacher_id].is_active

\* C12: a consumption that succeeds does exactly one of two things.  On a
\* bound code it activates the invited identity (active, new password) and
\* creates nothing; on an unbound code it creates exactly one identity, an
\* active teacher with the presented email.  Either way the code becomes
\* used with that identity as its consumer, the identity belongs to the
\* code's tenant, and no other identity and nothing else changes.
C12_ActivateOrCreate ==
    [][Answered("consume", "OK")
       => LET c == resp'.code
              u == resp'.u
          IN /\ c \in DOMAIN codes
             /\ codes' = [codes EXCEPT ![c].is_used = TRUE,
                                       ![c].used_by_teacher_id = u]
             /\ IF codes[c].invited_teacher_id # NULL
                THEN /\ u = codes[c].invited_teacher_id
                     /\ u \in DOMAIN users
                     /\ DOMAIN users' = DOMAIN users
                     /\ users'[u] = [users[u] EXCEPT !.is_active = TRUE, !.pw = "pw"]
                ELSE /\ u \notin DOMAIN users
                     /\ DOMAIN users' = DOMAIN users \cup {u}
                     /\ users'[u].role = "teacher"
                     /\ users'[u].is_active
                     /\ users'[u].pw = "pw"
                     /\ users'[u].email = resp'.email
                     /\ users'[u].deleted_at = NULL
             /\ \A v \in DOMAIN users \ {u} : users'[v] = users[v]
             /\ users'[u].school = codes[c].school
             /\ UNCHANGED <<schools, nextCode, trash, nextTid, issued, enrollments>>]_vars

\* an invited teacher consumed its bound code: it is active with its own
\* password and the code names it as consumer
C12_Witness ==
    /\ resp.op = "consume"
    /\ resp.status = "OK"
    /\ codes[resp.code].invited_teacher_id = resp.u
    /\ codes[resp.code].used_by_teacher_id = resp.u
    /\ users[resp.u].is_active
    /\ users[resp.u].pw = "pw"

\* C13: verifying a code answers the tenant of the code exactly when a
\* record with that code exists, is unused, and has no expiry or an expiry
\* strictly later than the present instant; otherwise it answers invalid.
\* Verifying never changes the store.
C13_VerifyExact ==
    [][resp'.op = "verify"
       => LET c == resp'.code
              good == /\ c \in DOMAIN codes
                      /\ codes[c].is_used = FALSE
                      /\ \/ codes[c].expires_at = NULL
                         \/ codes[c].expires_at > now
          IN /\ good => (resp'.status = "OK" /\ resp'.school = codes[c].school)
             /\ ~good => (resp'.status = "INVALID_OR_EXPIRED" /\ resp'.school = "None")
             /\ UNCHANGED <<now, store>>]_vars

\* an unused code was verified at the very instant of its expiry and was
\* answered invalid
C13_Witness ==
    /\ resp.op = "verify"
    /\ resp.status = "INVALID_OR_EXPIRED"
    /\ resp.code \in DOMAIN codes
    /\ ~codes[resp.code].is_used
    /\ codes[resp.code].expires_at = now

\* the fields of an answer besides the signal itself
AnswerFields(r) == DOMAIN r \ {"status", "school"}

\* C14: the failure signal does not tell why a code was rejected.  The
\* failure of a verification is one constant answer, and the failure of a
\* consumption is determined by the request's email and the identity store
\* alone, so two runs that agree on those and differ in whether the code
\* never existed, has expired or was already used get the same answer.
C14_FailureHidesCause ==
    [][/\ (resp'.op = "verify" /\ resp'.status # "OK")
          => /\ resp'.status = "INVALID_OR_EXPIRED"
             /\ resp'.school = "None"
             /\ AnswerFields(resp') = {"p", "op", "code"}
       /\ (resp'.op = "consume" /\ resp'.status \notin {"OK", "ERROR"})
          => /\ resp'.status = IF resp'.email \in EmailsHeld
                               THEN "DUPLICATE_EMAIL" ELSE "INVALID_OR_EXPIRED"
             /\ AnswerFields(resp') = {"p", "op", "code", "email"}]_vars

\* rejected consumptions of an expired unused code with an email nobody holds
C14_Witness ==
    /\ resp.op = "consume"
    /\ resp.status = "INVALID_OR_EXPIRED"
    /\ resp.code \in DOMAIN codes
    /\ ~codes[resp.code].is_used
    /\ codes[resp.code].expires_at # NULL
    /\ codes[resp.code].expires_at <= now
    /\ resp.email \notin EmailsHeld

\* C15: a bulk import never aborts or raises because of a row-level
\* problem: unless the request itself is cut off, it answers success, with
\* at most one error per row, tagged with the row's number, in file order.
C15_RowProblemsNeverAbort ==
    [][(resp'.op = "import" /\ ~Aborted)
       => /\ resp'.status = "OK"
          /\ \A k \in 1..Len(resp'.errors) :
               /\ resp'.errors[k][1] \in 2..(Len(resp'.rows) + 1)
               /\ k > 1 => resp'.errors[k - 1][1] < resp'.errors[k][1]]_vars

\* every row of the batch carries an email
AllWithEmail(rows) == \A k \in 1..Len(rows) : rows[k].email # ""

\* C16: a bulk import is idempotent on re-run.  When the batch that the
\* previous request imported is imported again into the same tenant, and
\* its rows carry their emails, the second run does not raise, creates and
\* enrols nothing (created = 0), and leaves identities and memberships as
\* the first run left them.
C16_ImportIdempotent ==
    [][\A p \in Procs :
         (/\ pc[p] # "idle"
          /\ loc[p].op = "import"
          /\ loc[p].rerun
          /\ AllWithEmail(loc[p].rows)
          /\ pc'[p] = "idle"
          /\ ~Aborted)
         => /\ resp'.op = "import"
            /\ resp'.status = "OK"
            /\ resp'.created = 0
            /\ resp'.enrolled = 0
            /\ users' = users
            /\ enrollments' = enrollments
            /\ UNCHANGED store]_vars

\* the second import of a batch found the student c that the first import
\* had created and enrolled in class k1, and created nothing
C16_Witness ==
    /\ resp.op = "import"
    /\ resp.status = "OK"
    /\ resp.rerun
    /\ resp.created = 0
    /\ \E k \in 1..Len(resp.rows), u \in DOMAIN users :
         /\ resp.rows[k].email = "c"
         /\ resp.rows[k].class = "k1"
         /\ users[u].email = "c"
         /\ users[u].role = "student"
         /\ <<"k1", u>> \in enrollments

\* the identities that hold an email
HoldersOf(us, e) == {u \in DOMAIN us : us[u].email = e}
\* the classes an identity is a member of
ClassesOf(en, u) == {c \in Classes : <<c, u>> \in en}

\* C17: tenant and role isolation of a student import.  A row whose email
\* resolves to an identity of another tenant, or of a role other than
\* student, gets a row error under its row number and has no effect: the
\* identity is not modified and gains no membership.  A row that resolves to
\* a student of the importing tenant creates no second identity, leaves the
\* student as it was, and attaches it to the row's class when that class
\* belongs to the tenant.  (The row meant is the first of the batch with its
\* email: a later one is skipped.)
C17_ImportIsolation ==
    [][Answered("import", "OK")
       => \A k \in 1..Len(resp'.rows), x \in DOMAIN users :
            LET row == resp'.rows[k]
                first == \A j \in 1..(k - 1) :
                           ~(resp'.rows[j].named /\ resp'.rows[j].email = row.email)
            IN (row.named /\ row.email = users[x].email)
               => /\ x \in DOMAIN users'
                  /\ users'[x] = users[x]
                  /\ HoldersOf(users', row.email) = {x}
                  /\ IF users[x].school # resp'.school \/ users[x].role # "student"
                     THEN /\ ClassesOf(enrollments', x) = ClassesOf(enrollments, x)
                          /\ first =>
                               \E n \in 1..Len(resp'.errors) :
                                 /\ resp'.errors[n][1] = k + 1
                                 /\ resp'.errors[n][2] \in {"other school", "not a student"}
                     ELSE (/\ first
                           /\ row.class \in Classes
                           /\ ClassSchool[row.class] = resp'.school)
                          => <<row.class, x>> \in enrollments']_vars

\* one import of school t1 refused a row whose email belongs to the admin of
\* another school and attached its own student b to class k1
C17_Witness ==
    /\ resp.op = "import"
    /\ resp.status = "OK"
    /\ resp.school = "t1"
    /\ resp.created = 0
    /\ resp.enrolled = 1
    /\ <<"k1", 2>> \in enrollments
    /\ \E n \in 1..Len(resp.errors) : resp.errors[n][2] = "other school"
    /\ \E u \in DOMAIN users : users[u].school = "t2" /\ ClassesOf(enrollments, u) = {}

\* C18: a student creation that supplies an identifier fails with
\* DUPLICATE_IDENTIFIER, creating nothing and changing nothing, when an
\* identity of the same tenant holds that identifier; otherwise (the
\* identifier is free in the tenant, whoever holds it elsewhere) it succeeds
\* and the new identity stores the identifier exactly as given.
C18_SuppliedIdentifier ==
    [][\A p \in Procs :
         (/\ pc[p] \in {"cs_number", "cs_commit"}
          /\ pc'[p] = "idle"
          /\ loc[p].given # NoNumber
          /\ ~Aborted)
         => IF \E x \in DOMAIN users : /\ users[x].school = loc[p].school
                                       /\ users[x].student_number = loc[p].given
            THEN /\ resp'.status = "DUPLICATE_IDENTIFIER"
                 /\ UNCHANGED store
            ELSE /\ resp'.status = "OK"
                 /\ DOMAIN users' = DOMAIN users \cup {resp'.u}
                 /\ users'[resp'.u].school = loc[p].school
                 /\ users'[resp'.u].student_number = loc[p].given]_vars

\* the step in which create_user calls the allocator
Allocates(p) ==
    /\ pc[p] = "cs_number"
    /\ pc'[p] # "cs_number"
    /\ loc[p].auto
    /\ ~(resp'.op = "create_student" /\ Aborted)

\* what the call gave: the identifier, or the error it raised
Allocated(p) == IF pc'[p] = "cs_commit" THEN loc'[p].sn ELSE AllocatorError

\* the identifier has the form Y-digits
InFamily(sn, year) ==
    /\ sn # NoNumber
    /\ Len(sn) >= 3
    /\ sn[1] = year
    /\ sn[2] = "-"
    /\ \A i \in 3..Len(sn) : sn[i] \in Digits

\* C19: for tenant T in year Y the allocator returns "Y-n", n written with
\* at least three digits and no more than it needs, where n is 1 plus the
\* largest numeric suffix among the identities of T, live or trashed, whose
\* identifier has the form Y-digits, and n = 1 when there is none;
\* identifiers of other tenants, of other years or with another suffix do
\* not count, and n goes beyond 999.
C19_NextStudentNumber ==
    [][\A p \in Procs :
         Allocates(p)
         => LET year == YearOf(now)
                family == {users[x].student_number :
                             x \in {y \in DOMAIN users :
                                      /\ users[y].school = loc[p].school
                                      /\ InFamily(users[y].student_number, year)}}
                r == loc'[p].sn
            IN /\ pc'[p] = "cs_commit"
               /\ InFamily(r, year)
               /\ Len(Suffix(r)) >= 3
               /\ Len(Suffix(r)) > 3 => r[3] # "0"
               /\ CastInteger(Suffix(r)) =
                    IF family = {} THEN 1
                    ELSE 1 + SetMax({CastInteger(Suffix(f)) : f \in family})]_vars

\* the rows that hold no identifier or an allocated one
AllocatedRows ==
    {x \in Committed : \/ x.student_number = NoNumber
                       \/ <<x.school, x.student_number>> \in issued}

\* C20 (as stated): the allocator returns what it would return if no
\* identity with an admin-supplied identifier existed, whatever string the
\* admin supplied.
C20_SuppliedNeverCount ==
    [][\A p \in Procs :
         Allocates(p)
         => Allocated(p) =
              generate_next_student_number(AllocatedRows, loc[p].school, now)]_vars

\* C20 (amended): the allocator returns what it would return if no identity
\* existed whose admin-supplied identifier is not of the form Y-digits of
\* the present year; a supplied identifier of that form counts like an
\* allocated one.
C20_CustomSuppliedNeverCount ==
    [][\A p \in Procs :
         Allocates(p)
         => Allocated(p) =
              generate_next_student_number(
                  {x \in Committed : \/ x \in AllocatedRows
                                     \/ InFamily(x.student_number, YearOf(now))},
                  loc[p].school, now)]_vars

\* a student got its number from the allocator in a school where another
\* student holds the custom identifier Y1-x and a third one a supplied
\* identifier of the year's form
C20_Witness ==
    /\ resp.op = "create_student"
    /\ resp.status = "OK"
    /\ resp.auto
    /\ \E x \in DOMAIN users, y \in DOMAIN users :
         /\ users[x].school = resp.school
         /\ users[x].student_number = <<"Y1", "-", "x">>
         /\ users[y].school = resp.school
         /\ InFamily(users[y].student_number, "Y1")
         /\ <<resp.school, users[y].student_number>> \notin issued
         /\ CastInteger(Suffix(resp.student_number)) =
              1 + CastInteger(Suffix(users[y].student_number))

\* C21: a soft-delete that succeeds sets the delete timestamp of its
\* identity and, exactly when the identity is a student, creates one
\* TrashRecord for it, deleted at the present instant and expiring 30 days
\* later; a teacher or an admin gets no TrashRecord; no other identity and
\* no other TrashRecord changes.
C21_SoftDeleteTrashesStudents ==
    [][Answered("soft_delete", "OK")
       => LET u == resp'.u
          IN /\ u \in DOMAIN users
             /\ DOMAIN users' = DOMAIN users
             /\ users'[u].deleted_at # NULL
             /\ users'[u].deleted_at <= now
             /\ users' = [users EXCEPT ![u].deleted_at = users'[u].deleted_at]
             /\ IF users[u].role = "student"
                THEN /\ u \notin DOMAIN trash
                     /\ DOMAIN trash' = DOMAIN trash \cup {u}
                     /\ trash'[u].deleted_at = now
                     /\ trash'[u].expires_at = trash'[u].deleted_at + RetentionDays
                     /\ \A x \in DOMAIN trash : trash'[x].tid # trash'[u].tid
                ELSE DOMAIN trash' = DOMAIN trash
             /\ \A x \in DOMAIN trash : trash'[x] = trash[x]]_vars

\* the student of the school was soft-deleted a week after the start: its
\* TrashRecord expires on day 37
C21_Witness ==
    /\ resp.op = "soft_delete"
    /\ resp.status = "OK"
    /\ users[resp.u].role = "student"
    /\ users[resp.u].deleted_at = 7
    /\ resp.u \in DOMAIN trash
    /\ trash[resp.u].expires_at = 37

\* C22: an operation in the wrong state is rejected without effect.  A
\* soft-delete of an identity that is absent or already deleted answers
\* NOT_FOUND, a restore of an identity that is absent or live answers
\* NOT_FOUND_OR_NOT_DELETED, and neither changes anything: a second
\* soft-delete moves no delete timestamp, extends no expiry and adds no
\* TrashRecord.  Neither operation is rejected in the right state.
C22_WrongStateRejected ==
    [][\A p \in Procs :
         /\ (pc[p] = "idle" /\ pc'[p] = "sd_commit")
            => /\ loc'[p].u \in DOMAIN users
               /\ users[loc'[p].u].deleted_at = NULL
         /\ (pc[p] = "idle" /\ pc'[p] = "rs_trash")
            => /\ loc'[p].u \in DOMAIN users
               /\ users[loc'[p].u].deleted_at # NULL
         /\ (pc[p] = "idle" /\ resp'.p = p /\ resp'.op = "soft_delete")
            => /\ resp'.status = "NOT_FOUND"
               /\ resp'.u \notin DOMAIN users \/ users[resp'.u].deleted_at # NULL
               /\ UNCHANGED <<now, store>>
         /\ (pc[p] = "idle" /\ resp'.p = p /\ resp'.op = "restore")
            => /\ resp'.status = "NOT_FOUND_OR_NOT_DELETED"
               /\ resp'.u \notin DOMAIN users \/ users[resp'.u].deleted_at = NULL
               /\ UNCHANGED <<now, store>>
         /\ (pc[p] \in {"sd_commit", "rs_trash", "rs_commit"} /\ pc'[p] = "idle")
            => resp'.status = "OK" \/ Aborted]_vars

\* a second soft-delete of a student that is in the trash was answered
\* NOT_FOUND
C22_Witness ==
    /\ resp.op = "soft_delete"
    /\ resp.status = "NOT_FOUND"
    /\ resp.u \in DOMAIN users
    /\ users[resp.u].deleted_at # NULL
    /\ resp.u \in DOMAIN trash
    /\ trash[resp.u].expires_at = users[resp.u].deleted_at + RetentionDays

\* C23: an invitation for an email that already belongs to an identity,
\* activated or only invited, is answered DUPLICATE_EMAIL and writes
\* nothing: no identity, no invitation code, and the codes issued earlier
\* are left as they were.  An invitation goes on to create an identity only
\* when no identity holds its email.
C23_InviteDuplicateEmail ==
    [][\A p \in Procs :
         /\ (pc[p] = "idle" /\ pc'[p] = "iv_flush")
            => loc'[p].email \notin EmailsHeld
         /\ (pc[p] = "idle" /\ resp'.p = p /\ resp'.op = "invite")
            => /\ resp'.status = "DUPLICATE_EMAIL"
               /\ resp'.email \in EmailsHeld
               /\ UNCHANGED <<now, store>>
               /\ \A c \in DOMAIN codes : ValidCode(c, now)' = ValidCode(c, now)]_vars

\* a second invitation for a teacher that is invited and not activated was
\* refused, and the code of the first invitation is still valid
C23_Witness ==
    /\ resp.op = "invite"
    /\ resp.status = "DUPLICATE_EMAIL"
    /\ \E i \in get_user_by_email(resp.email) :
          /\ users[i].role = "teacher"
          /\ ~users[i].is_active
          /\ \E c \in DOMAIN codes :
                /\ codes[c].invited_teacher_id = i
                /\ ValidCode(c, now)

\* C25: a TrashRecord whose expires_at has passed does not stay: it is
\* eventually gone, purged with its identity by a sweep unless the identity
\* was restored.
C25_ExpiredEventuallyPurged ==
    \A u \in Ids :
        (u \in DOMAIN trash /\ trash[u].expires_at <= now) ~> (u \notin DOMAIN trash)

\* C26: whatever a sweep interleaves with, each identity that its commit
\* deletes is, at that moment, soft-deleted and in the trash with a
\* retention window that has elapsed.
C26_SweepDeletesOnlyExpired ==
    [][\A p \in Procs :
         (pc[p] = "sw_commit" /\ Answered("sweep", "OK") /\ resp'.p = p)
         => \A u \in DOMAIN users \ DOMAIN users' :
              /\ users[u].deleted_at # NULL
              /\ u \in DOMAIN trash
              /\ trash[u].expires_at <= now]_vars

\* C24: every teacher invitation that succeeds, single or as the result
\* of a teacher import, creates for each invited teacher one inactive
\* teacher identity in the school of the issuing admin and exactly one
\* code: unused, bound to that identity and that school, expiring 7 days
\* after the moment it was created.  The import answers one invitation per
\* created teacher, and nothing that existed before is changed.
C24_OneCodePerInvitedTeacher ==
    [][\A p \in Procs :
         /\ (pc[p] = "iv_flush" /\ pc'[p] = "iv_commit")
            => loc'[p].expires_at = now + CodeTTLDays
         /\ (pc[p] = "ti_flush" /\ pc'[p] \in {"ti_row", "ti_class", "ti_commit"})
            => /\ Len(loc'[p].invited) = Len(loc[p].invited) + 1
               /\ loc'[p].invited[Len(loc'[p].invited)].expires_at = now + CodeTTLDays
         /\ (/\ pc[p] \in {"iv_commit", "ti_commit"}
             /\ resp'.p = p
             /\ resp'.op \in {"invite", "import_teachers"}
             /\ resp'.status = "OK")
            => LET invitees == DOMAIN users' \ DOMAIN users
                   issued_codes == DOMAIN codes' \ DOMAIN codes
               IN /\ \A u \in DOMAIN users : users'[u] = users[u]
                  /\ \A c \in DOMAIN codes : codes'[c] = codes[c]
                  /\ \A u \in invitees :
                        /\ users'[u].role = "teacher"
                        /\ ~users'[u].is_active
                        /\ users'[u].school = loc[p].school
                        /\ Cardinality({c \in DOMAIN codes' :
                                          codes'[c].invited_teacher_id = u}) = 1
                  /\ \A c \in issued_codes :
                        /\ ~codes'[c].is_used
                        /\ codes'[c].used_by_teacher_id = NULL
                        /\ codes'[c].school = loc[p].school
                        /\ codes'[c].invited_teacher_id \in invitees
                        /\ codes'[c].expires_at # NULL
                        /\ codes'[c].expires_at <= now + CodeTTLDays
                  /\ IF resp'.op = "invite"
                     THEN /\ invitees = {resp'.u}
                          /\ issued_codes = {resp'.code}
                          /\ codes'[resp'.code].expires_at = loc[p].expires_at
                     ELSE /\ Cardinality(invitees) = resp'.created
                          /\ Len(resp'.invitations) = resp'.created
                          /\ issued_codes = {resp'.invitations[k].code :
                                               k \in 1..Len(resp'.invitations)}
                          /\ \A k \in 1..Len(resp'.invitations) :
                                LET c == resp'.invitations[k].code
                                IN /\ users'[codes'[c].invited_teacher_id].email
                                        = resp'.invitations[k].email
                                   /\ codes'[c].expires_at = loc[p].invited[k].expires_at
                                   /\ \A j \in 1..Len(resp'.invitations) :
                                         resp'.invitations[j].code = c => j = k]_vars

\* a teacher import created two teachers and answered two invitations
C24_Witness ==
    /\ resp.op = "import_teachers"
    /\ resp.status = "OK"
    /\ resp.created = 2
    /\ Len(resp.invitations) = 2
    /\ \A k \in 1..2 :
          /\ resp.invitations[k].code \in DOMAIN codes
          /\ ~users[codes[resp.invitations[k].code].invited_teacher_id].is_active
    /\ codes[resp.invitations[1].code].invited_teacher_id
         # codes[resp.invitations[2].code].invited_teacher_id

\* the positions of a request inside one of the two bulk imports
ImportPcs ==
    {"im_row", "im_flush", "im_class", "im_enrol", "im_commit",
     "ti_row", "ti_flush", "ti_class", "ti_commit"}

\* C27: a bulk import writes in one commit, after its last row.  Every
\* other step of the import, and every way it can end without that commit,
\* leaves the store as it was; the commit makes all the identities, all the
\* invitation codes and all the memberships of the batch durable at once.
\* What the batch has only flushed is not seen by another request: an
\* invitation is refused as a duplicate only for an email of the store.
C27_ImportCommitsOnce ==
    [][/\ \A p \in Procs :
            (pc[p] \in ImportPcs /\ (pc'[p] # pc[p] \/ loc'[p] # loc[p]))
            => LET l == loc[p]
                   ids == nextId..(nextId + Len(l.pending) - 1)
               IN IF pc[p] \in {"im_commit", "ti_commit"} /\ resp'.status = "OK"
                  THEN /\ pc[p] = "im_commit" => ~l.failed
                       /\ DOMAIN users' = DOMAIN users \cup ids
                       /\ \A u \in DOMAIN users : users'[u] = users[u]
                       /\ \A k \in 1..Len(l.pending) : users'[nextId + k - 1] = l.pending[k]
                       /\ IF pc[p] = "im_commit"
                          THEN /\ enrollments' = enrollments \cup InsertedEnrollments(l)
                               /\ Cardinality(enrollments' \ enrollments) = resp'.enrolled
                               /\ codes' = codes
                               /\ classroom_teachers' = classroom_teachers
                          ELSE /\ enrollments' = enrollments
                               /\ Cardinality(DOMAIN codes' \ DOMAIN codes) = Len(l.pending)
                               /\ \A c \in DOMAIN codes : codes'[c] = codes[c]
                               /\ classroom_teachers \subseteq classroom_teachers'
                               /\ Cardinality(classroom_teachers' \ classroom_teachers)
                                    = Len(l.assigned)
                  ELSE /\ pc'[p] \in ImportPcs \cup {"idle"}
                       /\ pc'[p] = "idle" => resp'.status = "ERROR"
                       /\ UNCHANGED store
       /\ Answered("invite", "DUPLICATE_EMAIL") => resp'.email \in EmailsHeld]_vars

\* a student import of two rows committed two identities and one
\* membership
C27_Witness ==
    /\ resp.op = "import"
    /\ resp.status = "OK"
    /\ resp.created = 2
    /\ resp.enrolled = 1
    /\ Cardinality(enrollments) = 1
    /\ Cardinality(DOMAIN users) = 4

\* C28: inside one student import, the identifier allocated to a row has
\* the allocator's form and differs from every identifier held in the
\* school, by an identity of the store or by an earlier row of the batch,
\* allocated or supplied; the identifiers of the school are pairwise
\* distinct after the commit of the batch.
C28_BatchAllocationsDistinct ==
    [][\A p \in Procs :
         /\ (/\ pc[p] = "im_row"
             /\ pc'[p] = "im_flush"
             /\ Strip(loc[p].rows[loc[p].i].sn) = NoNumber)
            => LET sn == loc'[p].new.student_number
               IN /\ InFamily(sn, YearOf(now))
                  /\ \A x \in Committed \cup PendingRows(p) :
                        x.school = loc[p].school => x.student_number # sn
         /\ (pc[p] = "im_commit" /\ Answered("import", "OK") /\ resp'.p = p)
            => \A u, v \in DOMAIN users' :
                 (/\ u # v
                  /\ users'[u].school = users'[v].school
                  /\ users'[u].student_number # NoNumber)
                 => users'[u].student_number # users'[v].student_number]_vars

\* a batch supplied Y1-002 in its first row and had its second row
\* allocated: the second row holds Y1-003
C28_Witness ==
    /\ resp.op = "import"
    /\ resp.status = "OK"
    /\ resp.created = 2
    /\ Strip(resp.rows[1].sn) = <<"Y1", "-", "0", "0", "2">>
    /\ resp.rows[2].sn = NoNumber
    /\ \E u, v \in DOMAIN users :
          /\ users[u].email = resp.rows[1].email
          /\ users[u].student_number = <<"Y1", "-", "0", "0", "2">>
          /\ users[v].email = resp.rows[2].email
          /\ users[v].student_number = <<"Y1", "-", "0", "0", "3">>

\* the request p takes the row it stands at through the checks of its import
HandlesRow(p) ==
    /\ pc[p] \in {"im_row", "ti_row"}
    /\ pc'[p] # "idle"
    /\ pc'[p] # pc[p] \/ loc'[p] # loc[p]

\* the row is passed over: counted as skipped, no error, nothing created
RowSkipped(p) ==
    /\ pc'[p] \in {"im_row", "im_commit", "ti_row", "ti_commit"}
    /\ loc'[p].skipped = loc[p].skipped + 1
    /\ loc'[p].errors = loc[p].errors
    /\ loc'[p].created = loc[p].created
    /\ loc'[p].pending = loc[p].pending
    /\ pc[p] = "im_row" => loc'[p].enrol = loc[p].enrol
    /\ pc[p] = "ti_row" => /\ loc'[p].invited = loc[p].invited
                           /\ loc'[p].assigned = loc[p].assigned

\* the identities a batch has created hold pairwise distinct emails
OnePerEmail(p) ==
    (pc[p] \in {"im_commit", "ti_commit"} /\ resp'.p = p /\ resp'.status = "OK")
    => \A j, k \in 1..Len(loc[p].pending) :
         loc[p].pending[j].email = loc[p].pending[k].email => j = k

\* C29 (as stated): in both imports, a row whose email equals the email of
\* an earlier row of the batch is counted as skipped, adds no error and
\* creates no identity, code or membership; a batch creates at most one
\* identity per email.
C29_RepeatedEmailSkipped ==
    [][\A p \in Procs :
         /\ (/\ HandlesRow(p)
             /\ loc[p].rows[loc[p].i].email # ""
             /\ \E j \in 1..(loc[p].i - 1) :
                   loc[p].rows[j].email = loc[p].rows[loc[p].i].email)
            => RowSkipped(p)
         /\ OnePerEmail(p)]_vars

\* C29 (amended): in both imports, a row that has both names and whose
\* email equals the email of an earlier row that has both names is counted
\* as skipped, adds no error and creates no identity, code or membership; a
\* batch creates at most one identity per email.
C29_RepeatedNamedEmailSkipped ==
    [][\A p \in Procs :
         /\ (/\ HandlesRow(p)
             /\ loc[p].rows[loc[p].i].email # ""
             /\ loc[p].rows[loc[p].i].named
             /\ \E j \in 1..(loc[p].i - 1) :
                   /\ loc[p].rows[j].named
                   /\ loc[p].rows[j].email = loc[p].rows[loc[p].i].email)
            => RowSkipped(p)
         /\ OnePerEmail(p)]_vars

\* a teacher import whose two rows carry the same email created one teacher
\* and skipped the other row
C29_Witness ==
    /\ resp.op = "import_teachers"
    /\ resp.status = "OK"
    /\ Len(resp.rows) = 2
    /\ resp.rows[1].email = resp.rows[2].email
    /\ resp.created = 1
    /\ resp.skipped = 1
    /\ resp.errors = <<>>
    /\ Cardinality(get_user_by_email(resp.rows[1].email)) = 1

\* C30: in a student import, a row that has both names and a blank email
\* adds no error and is not skipped: it goes on to create an identity
\* under a placeholder email that no identity of the store holds and no
\* other row of the batch carries or was given, and the identity is then
\* enrolled in the class of the row.
C30_BlankEmailCreates ==
    [][\A p \in Procs :
         /\ (/\ HandlesRow(p)
             /\ pc[p] = "im_row"
             /\ loc[p].rows[loc[p].i].named
             /\ loc[p].rows[loc[p].i].email = "")
            => /\ pc'[p] = "im_flush"
               /\ loc'[p].errors = loc[p].errors
               /\ loc'[p].skipped = loc[p].skipped
               /\ loc'[p].new.email \notin EmailsHeld
               /\ loc'[p].new.email \notin loc[p].seen
               /\ \A k \in 1..Len(loc[p].rows) :
                     loc[p].rows[k].email # loc'[p].new.email
         /\ (/\ pc[p] = "im_commit"
             /\ Answered("import", "OK")
             /\ resp'.p = p)
            => \A k \in 1..Len(resp'.rows) :
                 (/\ resp'.rows[k].named
                  /\ resp'.rows[k].email = ""
                  /\ resp'.rows[k].class \in Classes)
                 => \E u \in DOMAIN users' \ DOMAIN users :
                      /\ users'[u].email \in SynthEmails
                      /\ <<resp'.rows[k].class, u>> \in enrollments'
                      /\ Cardinality({j \in 1..Len(resp'.rows) :
                                        /\ resp'.rows[j].named
                                        /\ resp'.rows[j].email = ""})
                           <= Cardinality((DOMAIN users' \ DOMAIN users))]_vars

====
